---------------------------- MODULE Spec2Model ----------------------------
(* A model of the TCNA database population pipeline                        *)
(* (Deployed_Server/backend/data/populate_db.py) and of the two scoring    *)
(* scripts it calls (scripts/DEPTH2.py, scripts/DEPTH_ITH.py).             *)
(*                                                                         *)
(* Strings are TLA+ strings; a character is a string of length one.        *)
(* A nullable surrogate id is a natural number, 0 standing for NULL/None   *)
(* (MySQL AUTO_INCREMENT ids start at 1).  A nullable float is a record    *)
(* [nan, v]: NaN has nan = TRUE, a number has nan = FALSE and value v.     *)
EXTENDS Integers, Sequences, FiniteSets, TLC

VARIABLES
    arg,          \* the call under study: a pure function's arguments, or main
    result,       \* what a pure function returned
    fs,           \* the data directory: site folder -> its sheet and its files
    cancer_names, \* main's list of site folders
    conn,         \* the storage connection: "none", "open" or "closed"
    db,           \* the tables as the connection sees them (uncommitted rows included)
    durable,      \* the tables as last committed
    maps,         \* main's gene_map, site_map, cancer_type_map, sample_map
    pc,           \* where main stands
    tmp_files,    \* the staging files that exist
    last,         \* what the operation that ran last did
    run,          \* "first" or "second" invocation of main on the same files
    first_run,    \* the committed tables when the first invocation returned
    steps         \* the calls main has made so far, in order

pureVars == <<arg, result>>
pipeVars == <<fs, cancer_names, conn, db, durable, maps, pc, tmp_files, last, run, first_run,
              steps>>
vars == <<arg, result, fs, cancer_names, conn, db, durable, maps, pc, tmp_files, last,
          run, first_run, steps>>

\* `result` before the function under study has been called, and after it
\* returned v.
Pending == [done |-> FALSE]
Returned(v) == [done |-> TRUE, value |-> v]

\* A table is a function from its natural (unique) key to the rest of the
\* row; the empty table is the empty function.
EmptyTable == <<>>
EmptyDb ==
    [genes |-> EmptyTable, sites |-> EmptyTable, cancer_types |-> EmptyTable,
     samples |-> EmptyTable, gene_expressions |-> EmptyTable,
     depth2_scores |-> EmptyTable, depth_scores |-> EmptyTable]
NoMaps ==
    [gene_map |-> EmptyTable, site_map |-> EmptyTable,
     cancer_type_map |-> EmptyTable, sample_map |-> EmptyTable]
NoOperation == [op |-> "none"]

\* The pipeline's variables while a pure function is studied on its own.
PipelineIdle ==
    /\ fs = EmptyTable
    /\ cancer_names = <<>>
    /\ conn = "none"
    /\ db = EmptyDb
    /\ durable = EmptyDb
    /\ maps = NoMaps
    /\ pc = [at |-> "idle"]
    /\ tmp_files = {}
    /\ last = NoOperation
    /\ run = "first"
    /\ first_run = EmptyDb
    /\ steps = <<>>

(***************************************************************************)
(* Bounds of the model.                                                    *)
(***************************************************************************)
\* Longest run of padding characters put before and after a keyword core.
MaxPad == 1
\* Most gene rows in a wide matrix drawn for the reshape/merge study.
MaxGeneRows == 2
\* Fixed-point unit of the scores: a float x is the integer floor(x * Scale).
Scale == 8
\* Most genes (rows) and samples (columns) of a matrix drawn for the scoring study.
MaxDepthGenes == 2
MaxDepthSamples == 3
\* Rows per batch of the row-level writes (BATCH_SIZE of the pipeline, which
\* is 1000000 there: scaled down so that several batches occur).
BATCH_SIZE == 2
\* Most rows of a sample sheet drawn for the sample-resolution study.
MaxSheetRows == 2

(***************************************************************************)
(* Python str operations used by the pipeline.                             *)
(***************************************************************************)
UpperLetters == "ABCDEFGHIJKLMNOPQRSTUVWXYZ"
LowerLetters == "abcdefghijklmnopqrstuvwxyz"

CharAt(s, i) == SubSeq(s, i, i)

\* str.lower() on one character (ASCII letters).
LowerChar(c) ==
    IF \E i \in 1..Len(UpperLetters) : CharAt(UpperLetters, i) = c
    THEN CharAt(LowerLetters, CHOOSE i \in 1..Len(UpperLetters) : CharAt(UpperLetters, i) = c)
    ELSE c

RECURSIVE ToLower(_)
ToLower(s) ==
    IF s = "" THEN "" ELSE LowerChar(CharAt(s, 1)) \o ToLower(Tail(s))

IsSpace(c) == c \in {" ", "\t", "\n", "\r"}

RECURSIVE LStrip(_)
LStrip(s) ==
    IF s = "" THEN ""
    ELSE IF IsSpace(CharAt(s, 1)) THEN LStrip(Tail(s)) ELSE s

RECURSIVE RStrip(_)
RStrip(s) ==
    IF s = "" THEN ""
    ELSE IF IsSpace(CharAt(s, Len(s))) THEN RStrip(SubSeq(s, 1, Len(s) - 1)) ELSE s

\* str.strip()
Strip(s) == RStrip(LStrip(s))

\* Python's `kw in s` on strings.
Contains(s, kw) ==
    \E i \in 1..(Len(s) - Len(kw) + 1) : SubSeq(s, i, i + Len(kw) - 1) = kw

\* str.split(sep) for a one-character separator: always at least one part.
RECURSIVE Split(_, _)
Split(s, sep) ==
    IF \E i \in 1..Len(s) : CharAt(s, i) = sep
    THEN LET k == CHOOSE i \in 1..Len(s) :
                    /\ CharAt(s, i) = sep
                    /\ \A j \in 1..(i - 1) : CharAt(s, j) # sep
         IN  <<SubSeq(s, 1, k - 1)>> \o Split(SubSeq(s, k + 1, Len(s)), sep)
    ELSE <<s>>

(***************************************************************************)
(* normalize_sample_type                                                   *)
(***************************************************************************)
normal_keywords == {"normal", "control", "benign"}

\* The mutant: the keyword test without lower().
normalize_sample_type_case_sensitive(sample_type) ==
    IF sample_type = "" THEN "tumor"
    ELSE IF \E keyword \in normal_keywords : Contains(Strip(sample_type), keyword)
         THEN "normal"
         ELSE "tumor"

normalize_sample_type(sample_type) ==
    IF sample_type = "" THEN "tumor"
    ELSE LET sample_type_lower == ToLower(Strip(sample_type))
         IN  IF \E keyword \in normal_keywords : Contains(sample_type_lower, keyword)
             THEN "normal"
             ELSE "tumor"

\* Strings over `alphabet` of length at most n.
RECURSIVE StringsUpTo(_, _)
StringsUpTo(alphabet, n) ==
    IF n = 0 THEN {""}
    ELSE LET shorter == StringsUpTo(alphabet, n - 1)
         IN  shorter \cup {c \o s : c \in alphabet, s \in shorter}

\* Raw sample-type strings: the GDC values of the sample sheets, keyword
\* cores in several spellings and near misses, each padded on both sides.
SampleTypeExamples ==
    {"Primary Tumor", "Solid Tissue Normal", "", "Metastatic", "Adjacent Normal",
     "Recurrent Tumor", "Blood Derived Normal", "Benign Neoplasm", "Control Analyte",
     "nan"}
SampleTypeCores ==
    {"normal", "Normal", "NORMAL", "nOrMaL", "norma", "ormal", "norm al", "nor-mal",
     "control", "CONTROL", "Control", "contro", "ontrol",
     "benign", "BENIGN", "Benign", "benig", "enign", "tumor", ""}
PadChars == {" ", "x", "N"}
RawSampleTypes ==
    SampleTypeExamples \cup
    {p \o c \o s : p \in StringsUpTo(PadChars, MaxPad), c \in SampleTypeCores,
                   s \in StringsUpTo(PadChars, MaxPad)}

InitClassify ==
    /\ arg \in {[fn |-> "normalize_sample_type", sample_type |-> s] : s \in RawSampleTypes}
    /\ result = Pending
    /\ PipelineIdle

CallNormalizeSampleType ==
    /\ result = Pending
    /\ arg.fn = "normalize_sample_type"
    /\ result' = Returned(normalize_sample_type(arg.sample_type))
    /\ UNCHANGED <<arg, pipeVars>>

SpecClassify == InitClassify /\ [][CallNormalizeSampleType]_vars

\* c and d are the same character, or the two cases of one letter.
SameIgnoringCase(c, d) ==
    \/ c = d
    \/ \E i \in 1..Len(UpperLetters) :
          {c, d} = {CharAt(UpperLetters, i), CharAt(LowerLetters, i)}

\* kw occurs in s at some position, letter case ignored.
ContainsIgnoringCase(s, kw) ==
    \E i \in 1..(Len(s) - Len(kw) + 1) :
        \A j \in 1..Len(kw) : SameIgnoringCase(CharAt(s, i + j - 1), CharAt(kw, j))

\* C7: normalize_sample_type returns "normal" exactly when the raw string
\* contains normal, control or benign in any letter case, and "tumor" for
\* every other input, the empty string included.
C7_NormalIffKeyword ==
    (result.done /\ arg.fn = "normalize_sample_type") =>
        /\ result.value \in {"tumor", "normal"}
        /\ (result.value = "normal") <=>
               \E kw \in {"normal", "control", "benign"} :
                   ContainsIgnoringCase(arg.sample_type, kw)
        /\ arg.sample_type = "" => result.value = "tumor"
        /\ arg.sample_type = "Primary Tumor" => result.value = "tumor"
        /\ arg.sample_type = "Solid Tissue Normal" => result.value = "normal"
        /\ arg.sample_type = "Metastatic" => result.value = "tumor"
        /\ arg.sample_type = "Adjacent Normal" => result.value = "normal"

\* A mixed-case keyword inside a longer string has been classified normal.
C7_Witness ==
    /\ arg.fn = "normalize_sample_type"
    /\ arg.sample_type = "Solid Tissue Normal"
    /\ result = Returned("normal")

(***************************************************************************)
(* Data frames.  A wide expression matrix, as read from a CSV file, is     *)
(*   [sample_columns : Seq(barcode),                                       *)
(*    rows : Seq([gene_id, gene_name, cells : Seq(cell)])]                 *)
(* with one cell per sample column.  A long relation is a sequence of      *)
(* records.                                                                *)
(***************************************************************************)
\* df.drop(columns=["gene_name"]) and df.rename(columns={"gene_id": "ensembl_id"})
DropAndRename(df) ==
    [columns |-> df.sample_columns,
     rows |-> [r \in 1..Len(df.rows) |->
                  [ensembl_id |-> df.rows[r].gene_id, cells |-> df.rows[r].cells]]]

\* df.melt(id_vars="ensembl_id", var_name="sample_barcode", value_name=...):
\* one long row per (column, gene row), column by column.
Melt(df, value_name) ==
    LET n == Len(df.rows)
    IN  [k \in 1..(n * Len(df.columns)) |->
            LET c == ((k - 1) \div n) + 1
                r == ((k - 1) % n) + 1
            IN  [ensembl_id |-> df.rows[r].ensembl_id,
                 sample_barcode |-> df.columns[c]] @@ (value_name :> df.rows[r].cells[c])]

\* The right rows that join one left row, in the right relation's order.
MergeRow(l, right) ==
    LET matching == SelectSeq(right, LAMBDA r :
                        /\ r.ensembl_id = l.ensembl_id
                        /\ r.sample_barcode = l.sample_barcode)
    IN  [i \in 1..Len(matching) |-> l @@ matching[i]]

\* The mutant: a join on the gene identifier alone.
RECURSIVE MergeOnGeneOnly(_, _)
MergeOnGeneOnly(left, right) ==
    IF left = <<>> THEN <<>>
    ELSE LET l == Head(left)
             matching == SelectSeq(right, LAMBDA r : r.ensembl_id = l.ensembl_id)
         IN  [i \in 1..Len(matching) |-> l @@ matching[i]]
             \o MergeOnGeneOnly(Tail(left), right)

\* left.merge(right, on=["ensembl_id", "sample_barcode"]): pandas' default
\* inner join, in the order of the left keys.
RECURSIVE Merge(_, _)
Merge(left, right) ==
    IF left = <<>> THEN <<>>
    ELSE MergeRow(Head(left), right) \o Merge(Tail(left), right)

\* The melt and the two merges of process_expression_set.
MergedFrame(tpm_df, fpkm_df, fpkm_uq_df) ==
    LET tpm_long == Melt(DropAndRename(tpm_df), "tpm")
        fpkm_long == Melt(DropAndRename(fpkm_df), "fpkm")
        fpkm_uq_long == Melt(DropAndRename(fpkm_uq_df), "fpkm_uq")
    IN  Merge(Merge(tpm_long, fpkm_long), fpkm_uq_long)

(***************************************************************************)
(* The reshape/merge study: three wide matrices drawn from bounded sets.   *)
(***************************************************************************)
StudyGenes == {"ENSG1", "ENSG2"}

RECURSIVE SeqsUpTo(_, _)
SeqsUpTo(S, n) ==
    IF n = 0 THEN {<<>>}
    ELSE LET shorter == SeqsUpTo(S, n - 1)
         IN  shorter \cup {<<x>> \o q : x \in S, q \in shorter}

\* A cell that tells which matrix, gene row and column it came from.
StudyCell(norm, r, barcode) == norm \o ":" \o ToString(r) \o ":" \o barcode

StudyMatrix(norm, columns, gene_ids) ==
    [sample_columns |-> columns,
     rows |-> [r \in 1..Len(gene_ids) |->
                  [gene_id |-> gene_ids[r], gene_name |-> "SYM",
                   cells |-> [c \in 1..Len(columns) |-> StudyCell(norm, r, columns[c])]]]]

StudyColumns(norm) ==
    CASE norm = "tpm" -> {<<>>, <<"A">>, <<"B">>, <<"A", "B">>}
      [] norm = "fpkm" -> {<<>>, <<"A">>, <<"C">>, <<"A", "C">>, <<"C", "A">>}
      [] norm = "fpkm_uq" -> {<<"A", "B", "C">>, <<"B">>, <<>>}

StudyMatrices(norm) ==
    {StudyMatrix(norm, cols, ids) :
        cols \in StudyColumns(norm), ids \in SeqsUpTo(StudyGenes, MaxGeneRows)}

InitMerge ==
    /\ arg \in {[fn |-> "merge", tpm_df |-> t, fpkm_df |-> f, fpkm_uq_df |-> u] :
                  t \in StudyMatrices("tpm"), f \in StudyMatrices("fpkm"),
                  u \in StudyMatrices("fpkm_uq")}
    /\ result = Pending
    /\ PipelineIdle

CallMerge ==
    /\ result = Pending
    /\ arg.fn = "merge"
    /\ result' = Returned(MergedFrame(arg.tpm_df, arg.fpkm_df, arg.fpkm_uq_df))
    /\ UNCHANGED <<arg, pipeVars>>

SpecMerge == InitMerge /\ [][CallMerge]_vars

Range(f) == {f[x] : x \in DOMAIN f}

\* The (gene identifier, sample barcode) pairs that occur in a wide matrix.
PairsOf(df) ==
    {<<df.rows[r].gene_id, df.sample_columns[c]>> :
        r \in 1..Len(df.rows), c \in 1..Len(df.sample_columns)}

\* C1: the merged long relation has a row for a (gene identifier, sample
\* barcode) pair only if the pair occurs in all three wide matrices; with
\* TPM samples {A,B}, FPKM {A,C} and FPKM-UQ {A,B,C} only sample A is left.
C1_MergeOnlyCommonPairs ==
    (result.done /\ arg.fn = "merge") =>
        /\ \A i \in 1..Len(result.value) :
              LET pair == <<result.value[i].ensembl_id, result.value[i].sample_barcode>>
              IN  /\ pair \in PairsOf(arg.tpm_df)
                  /\ pair \in PairsOf(arg.fpkm_df)
                  /\ pair \in PairsOf(arg.fpkm_uq_df)
        /\ ( /\ arg.tpm_df.sample_columns = <<"A", "B">>
             /\ arg.fpkm_df.sample_columns = <<"A", "C">>
             /\ arg.fpkm_uq_df.sample_columns = <<"A", "B", "C">> )
           => \A i \in 1..Len(result.value) : result.value[i].sample_barcode = "A"

\* The example of the claim, with a gene in all three matrices: sample A
\* is in the merged relation, and B and C were dropped.
C1_Witness ==
    /\ arg.fn = "merge"
    /\ result.done
    /\ arg.tpm_df.sample_columns = <<"A", "B">>
    /\ arg.fpkm_df.sample_columns = <<"A", "C">>
    /\ arg.fpkm_uq_df.sample_columns = <<"A", "B", "C">>
    /\ Len(result.value) > 0
    /\ Len(arg.tpm_df.rows) = 2

(***************************************************************************)
(* Floats.  A float is [nan |-> TRUE] or [nan |-> FALSE, v |-> n], n the   *)
(* value in units of 1/Scale.  Means are kept exact (deviations are taken  *)
(* as n*x - sum), so each statistic is rounded once, at its square root.   *)
(***************************************************************************)
NaN == [nan |-> TRUE]
Num(n) == [nan |-> FALSE, v |-> n]

RECURSIVE SumSeq(_)
SumSeq(q) == IF q = <<>> THEN 0 ELSE Head(q) + SumSeq(Tail(q))

\* floor(sqrt(n)) for n >= 0.
Isqrt(n) == CHOOSE r \in 0..n : r * r <= n /\ (r + 1) * (r + 1) > n

Abs(n) == IF n < 0 THEN -n ELSE n

\* The non-missing values of a sequence of floats, as integers.
Present(q) ==
    LET kept == SelectSeq(q, LAMBDA x : ~x.nan)
    IN  [i \in 1..Len(kept) |-> kept[i].v]

\* Standard deviation of a sequence of integers xs with `ddof` delta degrees
\* of freedom: sqrt(sum((x - mean)^2) / (n - ddof)); NaN when n - ddof <= 0.
StdOf(xs, ddof) ==
    LET n == Len(xs)
        total == SumSeq(xs)
        sq == SumSeq([i \in 1..n |-> (n * xs[i] - total) * (n * xs[i] - total)])
    IN  IF n - ddof <= 0 THEN NaN
        ELSE Num(Isqrt(sq \div (n * n * (n - ddof))))

\* numpy.ndarray.std(ddof=0): any NaN in the slice makes the result NaN.
NdarrayStd(q) ==
    IF \E i \in 1..Len(q) : q[i].nan THEN NaN ELSE StdOf(Present(q), 0)

\* pandas std(skipna=True), whose default ddof is 1.
PandasStd(q) == StdOf(Present(q), 1)

\* Column c of a matrix given as a sequence of rows.
Column(values, c) == [g \in 1..Len(values) |-> values[g][c]]

(***************************************************************************)
(* scripts/DEPTH2.py.  A matrix is                                         *)
(*   [index : Seq(gene), columns : Seq(barcode), values : Seq(Seq(float))] *)
(* with values[g][c] the entry of gene g and sample c.                     *)
(***************************************************************************)
\* The mutant: a row without variance scores 0 instead of missing.
ZScoreRowConstantZero(row) ==
    LET xs == Present(row)
        n == Len(xs)
        total == SumSeq(xs)
        sq == SumSeq([i \in 1..n |-> (n * xs[i] - total) * (n * xs[i] - total)])
        isconst == \A i \in 1..n : xs[i] = xs[1]
    IN  [c \in 1..Len(row) |->
            IF isconst THEN Num(0)
            ELSE IF row[c].nan THEN NaN
            ELSE LET d == n * row[c].v - total
                     magnitude == Isqrt((Scale * Scale * n * d * d) \div sq)
                 IN  Num(IF d < 0 THEN -magnitude ELSE magnitude)]

\* scipy.stats.zscore(row, nan_policy='omit') of one gene row:
\* (x - mean) / std over the non-missing entries (ddof = 0), the magnitude
\* rounded down to the unit; a row that is constant, or has no entry,
\* gives NaN everywhere.
ZScoreRow(row) ==
    LET xs == Present(row)
        n == Len(xs)
        total == SumSeq(xs)
        sq == SumSeq([i \in 1..n |-> (n * xs[i] - total) * (n * xs[i] - total)])
        isconst == \A i \in 1..n : xs[i] = xs[1]
    IN  [c \in 1..Len(row) |->
            IF row[c].nan \/ isconst THEN NaN
            ELSE LET d == n * row[c].v - total
                     magnitude == Isqrt((Scale * Scale * n * d * d) \div sq)
                 IN  Num(IF d < 0 THEN -magnitude ELSE magnitude)]

\* zscore(expr_matrix, axis=1, nan_policy='omit')
ZScores(values) == [g \in 1..Len(values) |-> ZScoreRow(values[g])]

\* The absolute values of one row of z-scores.
AbsZScoreRow(row) ==
    [c \in 1..Len(row) |->
        IF ZScoreRow(row)[c].nan THEN NaN ELSE Num(Abs(ZScoreRow(row)[c].v))]

\* np.abs(zscore(expr_matrix, axis=1, nan_policy='omit'))
AbsZScores(values) == [g \in 1..Len(values) |-> AbsZScoreRow(values[g])]

\* The mutant: the per-sample aggregation skips missing |z| (numpy.nanstd).
depth2_calculation_nanstd(expr_matrix, zscore_returns_frame) ==
    LET abs_z_scores == AbsZScores(expr_matrix.values)
    IN  [c \in 1..Len(expr_matrix.columns) |-> StdOf(Present(Column(abs_z_scores, c)), 0)]

\* depth2_calculation: the result, one float per sample column.  abs_z_scores
\* is what scipy's zscore made of the DataFrame: a DataFrame with scipy
\* releases whose zmap does not convert its first argument (then .std is
\* pandas': skipna, ddof = 1), a numpy array with the others (then .std is
\* numpy's: NaN propagates, ddof = 0).
depth2_calculation(expr_matrix, zscore_returns_frame) ==
    LET abs_z_scores == AbsZScores(expr_matrix.values)
    IN  [c \in 1..Len(expr_matrix.columns) |->
            IF zscore_returns_frame
            THEN PandasStd(Column(abs_z_scores, c))
            ELSE NdarrayStd(Column(abs_z_scores, c))]

(***************************************************************************)
(* The scoring study: matrices drawn from bounded sets of gene rows.       *)
(***************************************************************************)
\* Rows of n entries: constant rows, the ramp 0,1,2,.. and its reverse, a
\* step, each also with one entry missing, and the row with no entry.
StudyRows(n) ==
    LET ramp == [c \in 1..n |-> Num((c - 1) * Scale)]
        rev == [c \in 1..n |-> Num((n - c) * Scale)]
        step == [c \in 1..n |-> Num(IF c = 1 THEN 0 ELSE 2 * Scale)]
        const5 == [c \in 1..n |-> Num(5 * Scale)]
        const0 == [c \in 1..n |-> Num(0)]
        full == {ramp, rev, step, const5, const0}
    IN  full \cup {[r EXCEPT ![c] = NaN] : r \in {ramp, const5}, c \in 1..n}
             \cup {[c \in 1..n |-> NaN]}

StudyBarcodes == <<"A", "B", "C", "D", "E">>

StudyExprMatrices ==
    UNION {
        {[index |-> [g \in 1..Len(rows) |-> "ENSG" \o ToString(g)],
          columns |-> SubSeq(StudyBarcodes, 1, n),
          values |-> rows] : rows \in SeqsUpTo(StudyRows(n), MaxDepthGenes) \ {<<>>}}
        : n \in 1..MaxDepthSamples}

InitDepth ==
    /\ arg \in {[fn |-> "depth2_calculation", expr_matrix |-> m, zscore_returns_frame |-> b] :
                  m \in StudyExprMatrices, b \in BOOLEAN}
    /\ result = Pending
    /\ PipelineIdle

CallDepth2 ==
    /\ result = Pending
    /\ arg.fn = "depth2_calculation"
    /\ result' = Returned(depth2_calculation(arg.expr_matrix, arg.zscore_returns_frame))
    /\ last' = [op |-> "depth2_calculation", z_scores |-> ZScores(arg.expr_matrix.values)]
    /\ UNCHANGED <<arg, fs, cancer_names, conn, db, durable, maps, pc, tmp_files,
                   run, first_run, steps>>

SpecDepth == InitDepth /\ [][CallDepth2]_vars

\* The 2-gene x 3-sample matrix of the spec: a constant gene and 0,1,2.
KnownCase ==
    [index |-> <<"ENSG1", "ENSG2">>, columns |-> <<"A", "B", "C">>,
     values |-> << <<Num(5 * Scale), Num(5 * Scale), Num(5 * Scale)>>,
                   <<Num(0), Num(Scale), Num(2 * Scale)>> >>]

\* C10: depth2_calculation returns for each sample the standard deviation,
\* over the genes whose |z| is not missing, of that sample's |z|; a gene
\* with missing z-scores does not make the score missing, and in the known
\* case (a constant gene and the gene 0,1,2) every sample's score is zero.
C10_Depth2IgnoresMissing ==
    (result.done /\ arg.fn = "depth2_calculation") =>
        /\ \A c \in 1..Len(arg.expr_matrix.columns) :
              LET abs_z == Present(Column(AbsZScores(arg.expr_matrix.values), c))
              IN  /\ Len(abs_z) >= 1 => ~result.value[c].nan
                  /\ result.value[c] = StdOf(abs_z, 0)
        /\ arg.expr_matrix = KnownCase =>
              \A c \in 1..3 : result.value[c] = Num(0)

\* C11: in depth2_calculation a gene row whose non-missing values are all
\* equal, or that has no value, gets a missing z-score for every sample,
\* and the call returns; any other row gets, where it has a value,
\* z = (x - mean) / std with mean and std over the row's non-missing values
\* (z keeps the sign of x - mean and z^2 * variance = (x - mean)^2 to the
\* unit), and a missing z where the value is missing.
C11_ZScoresOfRows ==
    (result.done /\ arg.fn = "depth2_calculation") =>
        \A g \in 1..Len(arg.expr_matrix.values) :
            LET row == arg.expr_matrix.values[g]
                z == last.z_scores[g]
                there == {c \in 1..Len(row) : ~row[c].nan}
                n == Cardinality(there)
                total == SumSeq([c \in 1..Len(row) |-> IF c \in there THEN row[c].v ELSE 0])
                \* n^2 times the variance, and n times the deviation of column c
                spread == SumSeq([c \in 1..Len(row) |->
                              IF c \in there THEN (n * row[c].v - total) * (n * row[c].v - total)
                              ELSE 0])
                dev(c) == n * row[c].v - total
            IN  /\ Len(z) = Len(row)
                /\ (n = 0 \/ \A c, d \in there : row[c].v = row[d].v) =>
                      \A c \in 1..Len(row) : z[c].nan
                /\ (\E c, d \in there : row[c].v # row[d].v) =>
                      \A c \in 1..Len(row) :
                          IF c \notin there THEN z[c].nan
                          ELSE /\ ~z[c].nan
                               /\ dev(c) > 0 => z[c].v >= 0
                               /\ dev(c) < 0 => z[c].v <= 0
                               /\ z[c].v * z[c].v * spread <= Scale * Scale * n * dev(c) * dev(c)
                               /\ (Abs(z[c].v) + 1) * (Abs(z[c].v) + 1) * spread
                                     > Scale * Scale * n * dev(c) * dev(c)

\* A matrix with a constant gene and a gene of distinct values with one
\* value missing has been scored.
C11_Witness ==
    /\ result.done
    /\ arg.fn = "depth2_calculation"
    /\ Len(arg.expr_matrix.values) = 2
    /\ arg.expr_matrix.values[1] = <<Num(5 * Scale), Num(5 * Scale), Num(5 * Scale)>>
    /\ arg.expr_matrix.values[2] = <<Num(0), NaN, Num(2 * Scale)>>
    /\ last.z_scores[1] = <<NaN, NaN, NaN>>
    /\ last.z_scores[2] = <<Num(-Scale), NaN, Num(Scale)>>

(***************************************************************************)
(* The data directory.  A site folder holds a sample sheet and up to six   *)
(* expression matrices.  A file is missing, malformed (pandas cannot read  *)
(* it) or a CSV.  A sheet cell, once read, is NaN or a text.               *)
(***************************************************************************)
Missing == [kind |-> "missing"]
Malformed == [kind |-> "malformed"]
\* os.path.exists
Exists(file) == file.kind # "missing"

NaCell == [na |-> TRUE]
Text(s) == [na |-> FALSE, s |-> s]
\* A cell of a sheet column that pandas reads as numbers; s is its str().
Number(s) == [na |-> FALSE, s |-> s, number |-> TRUE]
IsNumber(cell) == "number" \in DOMAIN cell
\* str(value) of a sheet cell: str(float('nan')) is "nan".
PyStr(cell) == IF cell.na THEN "nan" ELSE cell.s

Prefixes == <<"tumor", "normal">>
Norms == <<"tpm", "fpkm", "fpkm_uq">>
FileName(prefix, norm) == prefix \o "_" \o norm \o ".csv"
ExpressionFiles == {FileName(Prefixes[i], Norms[j]) : i \in 1..2, j \in 1..3}

\* Every folder name of the study, in sorted order.
SortedFolders == <<"Brain", "Breast", "Nasopharynx">>

\* get_cancer_sites_from_directory: the folders with at least one
\* expression file, sorted.
get_cancer_sites_from_directory(data_dir) ==
    SelectSeq(SortedFolders, LAMBDA item :
        /\ item \in DOMAIN data_dir
        /\ \E f \in ExpressionFiles : Exists(data_dir[item].files[f]))

\* The file `name` of a site folder; a name the folder does not list is missing.
FileAt(folder, name) == IF name \in DOMAIN folder.files THEN folder.files[name] ELSE Missing

(***************************************************************************)
(* The relational store.  INSERT gives a new row the next AUTO_INCREMENT   *)
(* id; ON DUPLICATE KEY UPDATE overwrites the listed columns of the row    *)
(* that holds the key.                                                     *)
(***************************************************************************)
Max(S) == CHOOSE x \in S : \A y \in S : y <= x

NextId(table) == 1 + Max({table[k].id : k \in DOMAIN table} \cup {0})

\* The mutant: REPLACE INTO, which deletes the stored row and inserts a new one.
ReplaceGene(genes, record) ==
    [k \in DOMAIN genes \cup {record[1]} |->
        IF k = record[1] THEN [id |-> NextId(genes), gene_symbol |-> record[2]]
        ELSE genes[k]]

\* INSERT INTO genes ... ON DUPLICATE KEY UPDATE gene_symbol = VALUES(gene_symbol)
UpsertGene(genes, record) ==
    IF record[1] \in DOMAIN genes
    THEN [genes EXCEPT ![record[1]].gene_symbol = record[2]]
    ELSE genes @@ (record[1] :> [id |-> NextId(genes), gene_symbol |-> record[2]])

\* The mutant: the new row takes id 1 and every stored row moves up by one.
InsertSiteRenumbering(sites, name) ==
    [k \in DOMAIN sites |-> [id |-> sites[k].id + 1]] @@ (name :> [id |-> 1])

\* INSERT INTO sites (name) VALUES (%s)
InsertSite(sites, name) == sites @@ (name :> [id |-> NextId(sites)])

\* INSERT INTO cancer_types ... ON DUPLICATE KEY UPDATE site_id = VALUES(site_id)
UpsertCancerType(cancer_types, record) ==
    IF record[1] \in DOMAIN cancer_types
    THEN [cancer_types EXCEPT ![record[1]].site_id = record[2]]
    ELSE cancer_types @@ (record[1] :> [id |-> NextId(cancer_types), site_id |-> record[2]])

\* The mutant: INSERT IGNORE, which leaves a stored row as it is.
InsertSampleIgnore(samples, record) ==
    IF record.sample_barcode \in DOMAIN samples
    THEN samples
    ELSE samples @@ (record.sample_barcode :>
             [id |-> NextId(samples), sample_type |-> record.sample_type,
              cancer_type_id |-> record.cancer_type_id])

\* INSERT INTO samples ... ON DUPLICATE KEY UPDATE sample_type, cancer_type_id
UpsertSample(samples, record) ==
    IF record.sample_barcode \in DOMAIN samples
    THEN [samples EXCEPT ![record.sample_barcode] =
             [id |-> @.id, sample_type |-> record.sample_type,
              cancer_type_id |-> record.cancer_type_id]]
    ELSE samples @@ (record.sample_barcode :>
             [id |-> NextId(samples), sample_type |-> record.sample_type,
              cancer_type_id |-> record.cancer_type_id])

\* INSERT INTO gene_expressions ... ON DUPLICATE KEY UPDATE tpm, fpkm, fpkm_uq
\* (and the same upsert of LOAD DATA), keyed by (gene_id, sample_id).
UpsertExpression(gene_expressions, record) ==
    LET key == <<record.gene_id, record.sample_id>>
        values == [tpm |-> record.tpm, fpkm |-> record.fpkm, fpkm_uq |-> record.fpkm_uq]
    IN  IF key \in DOMAIN gene_expressions
        THEN [gene_expressions EXCEPT ![key] = values]
        ELSE gene_expressions @@ (key :> values)

\* INSERT INTO depth2_scores / depth_scores ... ON DUPLICATE KEY UPDATE
UpsertScore(scores, record) ==
    LET values == [tpm |-> record.tpm, fpkm |-> record.fpkm, fpkm_uq |-> record.fpkm_uq]
    IN  IF record.sample_id \in DOMAIN scores
        THEN [scores EXCEPT ![record.sample_id] = values]
        ELSE scores @@ (record.sample_id :> values)

\* The statement that each step executes on its table.
Statement(table_name, table, record) ==
    CASE table_name = "genes" -> UpsertGene(table, record)
      [] table_name = "sites" -> InsertSite(table, record)
      [] table_name = "cancer_types" -> UpsertCancerType(table, record)
      [] table_name = "samples" -> UpsertSample(table, record)
      [] table_name = "gene_expressions" -> UpsertExpression(table, record)
      [] table_name \in {"depth2_scores", "depth_scores"} -> UpsertScore(table, record)

\* cursor.executemany(query, records): the statement applied to each
\* record in order.
RECURSIVE ExecuteMany(_, _, _)
ExecuteMany(table_name, table, records) ==
    IF records = <<>> THEN table
    ELSE ExecuteMany(table_name, Statement(table_name, table, Head(records)), Tail(records))

\* dict.get(key): 0 stands for None.
Get(map, key) == IF key \in DOMAIN map THEN map[key] ELSE 0

\* SELECT id, <key> FROM <table>, as a dict key -> id.
IdMap(table) == [k \in DOMAIN table |-> table[k].id]

\* The orders in which a Python set can be iterated.
Orderings(S) == {q \in [1..Cardinality(S) -> S] : Range(q) = S}

\* What a database call can do: succeed; raise before a row is written; or
\* write its rows and raise at the commit.
Outcomes == {"ok", "raises", "commit_raises"}

\* conn.commit() after `written`, or the failure `outcome` names.
AfterWrite(outcome, table_name, written) ==
    IF outcome = "raises" THEN db ELSE [db EXCEPT ![table_name] = written]

(***************************************************************************)
(* main, up to the dimension tables.                                       *)
(***************************************************************************)
\* The mutant: main begins with the site table, without a gene map.
MainStartAtSites ==
    /\ pc.at = "start"
    /\ cancer_names' = get_cancer_sites_from_directory(fs)
    /\ IF cancer_names' = <<>>
       THEN /\ pc' = [at |-> "returned", raised |-> FALSE, site_errors |-> FALSE]
            /\ result' = Returned("None")
            /\ UNCHANGED conn
       ELSE /\ pc' = [at |-> "sites"]
            /\ conn' = "open"
            /\ UNCHANGED result
    /\ last' = [op |-> "main_start"]
    /\ steps' = IF cancer_names' = <<>> THEN <<"get_cancer_sites_from_directory">>
                ELSE <<"get_cancer_sites_from_directory", "get_connection">>
    /\ UNCHANGED <<arg, fs, db, durable, maps, tmp_files, run, first_run>>

MainStart ==
    /\ pc.at = "start"
    /\ cancer_names' = get_cancer_sites_from_directory(fs)
    /\ IF cancer_names' = <<>>
       THEN /\ pc' = [at |-> "returned", raised |-> FALSE, site_errors |-> FALSE]
            /\ result' = Returned("None")
            /\ UNCHANGED conn
       ELSE /\ pc' = [at |-> "genes"]
            /\ conn' = "open"
            /\ UNCHANGED result
    /\ last' = [op |-> "main_start"]
    /\ steps' = IF cancer_names' = <<>> THEN <<"get_cancer_sites_from_directory">>
                ELSE <<"get_cancer_sites_from_directory", "get_connection">>
    /\ UNCHANGED <<arg, fs, db, durable, maps, tmp_files, run, first_run>>

\* The (gene_id, gene_name) pairs of one tumor_tpm.csv.
GenePairs(file) == {<<file.rows[r].gene_id, file.rows[r].gene_name>> : r \in 1..Len(file.rows)}

\* The set all_genes of populate_genes_table.
AllGenes(data_dir, names) ==
    UNION {IF Exists(data_dir[names[i]].files["tumor_tpm.csv"])
           THEN GenePairs(data_dir[names[i]].files["tumor_tpm.csv"])
           ELSE {} : i \in 1..Len(names)}

\* populate_genes_table.  A tumor_tpm.csv that cannot be read raises out of
\* the function: its loop has no handler.
PopulateGenes ==
    /\ pc.at = "genes"
    /\ IF \E i \in 1..Len(cancer_names) :
              fs[cancer_names[i]].files["tumor_tpm.csv"].kind = "malformed"
       THEN /\ pc' = [at |-> "except"]
            /\ last' = [op |-> "populate_genes_table", outcome |-> "read_raises"]
            /\ UNCHANGED <<db, durable, maps>>
       ELSE \E records \in Orderings(AllGenes(fs, cancer_names)), outcome \in Outcomes :
              /\ db' = AfterWrite(outcome, "genes", ExecuteMany("genes", db.genes, records))
              /\ durable' = IF outcome = "ok" THEN db' ELSE durable
              /\ maps' = IF outcome = "ok"
                         THEN [maps EXCEPT !.gene_map = IdMap(db'.genes)] ELSE maps
              /\ pc' = IF outcome = "ok" THEN [at |-> "sites"] ELSE [at |-> "except"]
              /\ last' = [op |-> "populate_genes_table", outcome |-> outcome,
                          records |-> records]
    /\ steps' = Append(steps, "populate_genes_table")
    /\ UNCHANGED <<arg, result, fs, cancer_names, conn, tmp_files, run, first_run>>

\* The predefined vocabulary of populate_sites_table (the entries of the
\* 26-name list that the study's folders can meet).
predefined_sites == {"Brain", "Breast"}

\* populate_sites_table
PopulateSites ==
    /\ pc.at = "sites"
    /\ LET site_names == predefined_sites \cup Range(cancer_names)
           existing_sites == DOMAIN db.sites
           new_sites == site_names \ existing_sites
       IN  \E order \in Orderings(new_sites),
              outcome \in IF new_sites = {} THEN {"ok", "raises"} ELSE Outcomes :
              /\ db' = AfterWrite(outcome, "sites", ExecuteMany("sites", db.sites, order))
              /\ durable' = IF outcome = "ok" /\ new_sites # {} THEN db' ELSE durable
              /\ maps' = IF outcome = "ok"
                         THEN [maps EXCEPT !.site_map = IdMap(db'.sites)] ELSE maps
              /\ pc' = IF outcome = "ok" THEN [at |-> "cancer_types"] ELSE [at |-> "except"]
              /\ last' = [op |-> "populate_sites_table", outcome |-> outcome,
                          inserted |-> order, existing |-> db.sites]
    /\ steps' = Append(steps, "populate_sites_table")
    /\ UNCHANGED <<arg, result, fs, cancer_names, conn, tmp_files, run, first_run>>

\* The mutant: a key already in the dict keeps its first value.
DictSetKeepFirst(dict, key, value) ==
    IF \E i \in 1..Len(dict) : dict[i][1] = key
    THEN dict
    ELSE Append(dict, <<key, value>>)

\* tcga_to_site[key] = value on a dict kept as a sequence of pairs in
\* insertion order: a key already there keeps its place.
DictSet(dict, key, value) ==
    IF \E i \in 1..Len(dict) : dict[i][1] = key
    THEN [i \in 1..Len(dict) |-> IF dict[i][1] = key THEN <<key, value>> ELSE dict[i]]
    ELSE Append(dict, <<key, value>>)

\* The codes one sheet adds to tcga_to_site.
RECURSIVE CodesOfRows(_, _, _)
CodesOfRows(dict, rows, site_id) ==
    IF rows = <<>> THEN dict
    ELSE LET tcga_code == Head(rows).tcga_code
         IN  CodesOfRows(
                 IF ~tcga_code.na /\ Strip(PyStr(tcga_code)) # ""
                 THEN DictSet(dict, Strip(PyStr(tcga_code)), site_id)
                 ELSE dict,
                 Tail(rows), site_id)

\* The loop of populate_cancer_types_table over the site folders.
RECURSIVE TcgaToSite(_, _, _, _)
TcgaToSite(dict, data_dir, names, site_map) ==
    IF names = <<>> THEN dict
    ELSE LET cancer_name == Head(names)
             site_id == Get(site_map, cancer_name)
             sheet == data_dir[cancer_name].sheet
         IN  TcgaToSite(
                 IF site_id # 0 /\ sheet.kind = "csv" /\ "tcga_code" \in sheet.columns
                 THEN CodesOfRows(dict, sheet.rows, site_id)
                 ELSE dict,
                 data_dir, Tail(names), site_map)

\* The processing of one sheet by populate_cancer_types_table raises: the
\* sheet cannot be read, or its codes are numbers, which the print after
\* the collecting loop cannot join.
CodesRaise(sheet) ==
    \/ sheet.kind = "malformed"
    \/ /\ sheet.kind = "csv"
       /\ "tcga_code" \in sheet.columns
       /\ \E r \in 1..Len(sheet.rows) :
             ~sheet.rows[r].tcga_code.na /\ IsNumber(sheet.rows[r].tcga_code)

\* The sites whose iteration of the loop of populate_cancer_types_table
\* ends in its except clause.
CancerTypeSitesRaised(data_dir, names, site_map) ==
    {names[i] : i \in {j \in 1..Len(names) :
                          /\ Get(site_map, names[j]) # 0
                          /\ CodesRaise(data_dir[names[j]].sheet)}}

\* populate_cancer_types_table
PopulateCancerTypes ==
    /\ pc.at = "cancer_types"
    /\ LET records == TcgaToSite(<<>>, fs, cancer_names, maps.site_map)
       IN  \E outcome \in IF records = <<>> THEN {"ok", "raises"} ELSE Outcomes :
              /\ db' = AfterWrite(outcome, "cancer_types",
                                  ExecuteMany("cancer_types", db.cancer_types, records))
              /\ durable' = IF outcome = "ok" /\ records # <<>> THEN db' ELSE durable
              /\ maps' = IF outcome = "ok"
                         THEN [maps EXCEPT !.cancer_type_map = IdMap(db'.cancer_types)]
                         ELSE maps
              /\ pc' = IF outcome = "ok" THEN [at |-> "samples"] ELSE [at |-> "except"]
              /\ last' = [op |-> "populate_cancer_types_table", outcome |-> outcome,
                          records |-> records, durable_before |-> durable,
                          raised |-> CancerTypeSitesRaised(fs, cancer_names, maps.site_map)]
    /\ steps' = Append(steps, "populate_cancer_types_table")
    /\ UNCHANGED <<arg, result, fs, cancer_names, conn, tmp_files, run, first_run>>

(***************************************************************************)
(* populate_samples_table                                                  *)
(***************************************************************************)
\* tcga_code is <<>> for None and <<s>> for the string s; Python's
\* `if tcga_code` is false for None and for the empty string.
Truthy(code) == code # <<>> /\ code[1] # ""

\* The mutant: the barcode fallback without the test of the TCGA prefix.
ResolveTcgaCodeAnyPrefix(row, has_column) ==
    LET explicit == IF has_column /\ ~row.tcga_code.na
                    THEN <<Strip(PyStr(row.tcga_code))>> ELSE <<>>
        parts == Split(Strip(PyStr(row.sample_barcode)), "-")
    IN  IF Truthy(explicit) THEN explicit
        ELSE IF Len(parts) >= 2 THEN <<parts[1] \o "-" \o parts[2]>>
        ELSE explicit

\* The classification code of one sheet row: the explicit column, then the
\* barcode.
ResolveTcgaCode(row, has_column) ==
    LET explicit == IF has_column /\ ~row.tcga_code.na
                    THEN <<Strip(PyStr(row.tcga_code))>> ELSE <<>>
        parts == Split(Strip(PyStr(row.sample_barcode)), "-")
    IN  IF Truthy(explicit) THEN explicit
        ELSE IF Len(parts) >= 2 /\ parts[1] = "TCGA" THEN <<parts[1] \o "-" \o parts[2]>>
        ELSE explicit

\* The dict appended to all_samples for one sheet row.
SampleRecord(row, has_column, cancer_type_map) ==
    LET tcga_code == ResolveTcgaCode(row, has_column)
    IN  [sample_barcode |-> Strip(PyStr(row.sample_barcode)),
         sample_type |-> normalize_sample_type(Strip(PyStr(row.sample_type))),
         cancer_type_id |-> IF Truthy(tcga_code) THEN Get(cancer_type_map, tcga_code[1]) ELSE 0]

\* The sheets the sample loop reads: present, readable, with both
\* required columns.
UsableSheet(sheet) ==
    /\ sheet.kind = "csv"
    /\ {"sample_barcode", "sample_type"} \subseteq sheet.columns

\* all_samples: one record per row of every usable sheet, sites in order.
RECURSIVE AllSamples(_, _, _)
AllSamples(data_dir, names, cancer_type_map) ==
    IF names = <<>> THEN <<>>
    ELSE LET sheet == data_dir[Head(names)].sheet
         IN  (IF UsableSheet(sheet)
              THEN [i \in 1..Len(sheet.rows) |->
                       SampleRecord(sheet.rows[i], "tcga_code" \in sheet.columns,
                                    cancer_type_map)]
              ELSE <<>>)
             \o AllSamples(data_dir, Tail(names), cancer_type_map)

\* The mutant: the last, shorter batch is left out.
NumBatchesFloor(records) == Len(records) \div BATCH_SIZE

\* range(0, len(records), BATCH_SIZE): the number of batches, and the
\* records of the first n batches.
NumBatches(records) == (Len(records) + BATCH_SIZE - 1) \div BATCH_SIZE
FirstBatches(records, n) ==
    SubSeq(records, 1, IF n * BATCH_SIZE < Len(records) THEN n * BATCH_SIZE ELSE Len(records))
Batch(records, k) ==
    SubSeq(records, (k - 1) * BATCH_SIZE + 1,
           IF k * BATCH_SIZE < Len(records) THEN k * BATCH_SIZE ELSE Len(records))

\* Where a batched write stops: 0 for nowhere, or at batch k, before its
\* rows are written or at its commit.
BatchFailures(records) ==
    {[batch |-> 0, kind |-> "none"]} \cup
    {[batch |-> k, kind |-> kind] :
        k \in 1..NumBatches(records), kind \in {"raises", "commit_raises"}}

\* The batched upsert loop on `table_name`, started on the connection's
\* view `view` and stopped by `failure`: the view afterwards, and what is
\* committed afterwards (a commit makes the whole view durable).
ViewAfterBatches(table_name, records, failure, view) ==
    LET n == IF failure.batch = 0 THEN NumBatches(records)
             ELSE IF failure.kind = "raises" THEN failure.batch - 1
             ELSE failure.batch
    IN  [view EXCEPT ![table_name] =
            ExecuteMany(table_name, view[table_name], FirstBatches(records, n))]
CommittedAfterBatches(table_name, records, failure, view, committed) ==
    LET n == IF failure.batch = 0 THEN NumBatches(records) ELSE failure.batch - 1
    IN  IF n = 0 THEN committed
        ELSE [view EXCEPT ![table_name] =
                 ExecuteMany(table_name, view[table_name], FirstBatches(records, n))]

\* The sites whose iteration of the loop of populate_samples_table ends in
\* its except clause: the sheet cannot be read.
SampleSitesRaised(data_dir, names) ==
    {names[i] : i \in {j \in 1..Len(names) : data_dir[names[j]].sheet.kind = "malformed"}}

PopulateSamples ==
    /\ pc.at = "samples"
    /\ LET records == AllSamples(fs, cancer_names, maps.cancer_type_map)
       IN  \E failure \in BatchFailures(records) :
              /\ db' = ViewAfterBatches("samples", records, failure, db)
              /\ durable' = CommittedAfterBatches("samples", records, failure,
                                                  db, durable)
              /\ maps' = IF failure.batch = 0
                         THEN [maps EXCEPT !.sample_map = IdMap(db'.samples)] ELSE maps
              /\ pc' = IF failure.batch = 0
                       THEN [at |-> "expressions", site |-> 1, prefix |-> 1]
                       ELSE [at |-> "except"]
              /\ last' = [op |-> "populate_samples_table", failure |-> failure,
                          records |-> records, durable_before |-> durable,
                          raised |-> SampleSitesRaised(fs, cancer_names)]
    /\ steps' = Append(steps, "populate_samples_table")
    /\ UNCHANGED <<arg, result, fs, cancer_names, conn, tmp_files, run, first_run>>

(***************************************************************************)
(* process_expression_set                                                  *)
(***************************************************************************)
Digits == "0123456789"
IsDigit(c) == \E i \in 1..Len(Digits) : CharAt(Digits, i) = c
DigitValue(c) == (CHOOSE i \in 1..Len(Digits) : CharAt(Digits, i) = c) - 1

RECURSIVE ParseDigits(_)
ParseDigits(s) ==
    IF s = "" THEN 0
    ELSE 10 * ParseDigits(SubSeq(s, 1, Len(s) - 1)) + DigitValue(CharAt(s, Len(s)))

\* pd.to_numeric(cell, errors="coerce") on the cells of the study: an
\* unsigned integer literal is its value, any other text (the empty cell,
\* which pandas reads as NaN, included) is NaN.
ToNumeric(cell) ==
    IF cell # "" /\ \A i \in 1..Len(cell) : IsDigit(CharAt(cell, i))
    THEN Num(ParseDigits(cell) * Scale)
    ELSE NaN

\* merged_df["gene_id"] = ...map(gene_map); merged_df["sample_id"] = ...map(sample_map):
\* an identifier the dict does not hold maps to NaN (0 here).
MapIds(merged, gene_map, sample_map) ==
    [i \in 1..Len(merged) |->
        merged[i] @@ [gene_id |-> Get(gene_map, merged[i].ensembl_id),
                      sample_id |-> Get(sample_map, merged[i].sample_barcode)]]

\* The mutant: no row is dropped.
DropNaKeepsAll(rows) == rows

\* merged_df.dropna(subset=["gene_id", "sample_id"])
DropNa(rows) == SelectSeq(rows, LAMBDA r : r.gene_id # 0 /\ r.sample_id # 0)

\* The five columns kept, the three value columns coerced to numeric.
ToRecords(rows) ==
    [i \in 1..Len(rows) |->
        [gene_id |-> rows[i].gene_id, sample_id |-> rows[i].sample_id,
         tpm |-> ToNumeric(rows[i].tpm), fpkm |-> ToNumeric(rows[i].fpkm),
         fpkm_uq |-> ToNumeric(rows[i].fpkm_uq)]]

\* The rows process_expression_set is ready to insert.
ResolvedRows(tpm_df, fpkm_df, fpkm_uq_df, gene_map, sample_map) ==
    ToRecords(DropNa(MapIds(MergedFrame(tpm_df, fpkm_df, fpkm_uq_df), gene_map, sample_map)))

\* The mutant: the existence test looks at the TPM file alone.
MissingFilesTpmOnly(files) == ~Exists(files[1])

\* not all(os.path.exists(p) for p in [tpm_path, fpkm_path, fpkm_uq_path])
MissingFiles(files) == \E j \in 1..3 : ~Exists(files[j])

\* A record with a NaN among its three values.
HasNaN(record) == record.tpm.nan \/ record.fpkm.nan \/ record.fpkm_uq.nan

\* The rows LOAD DATA reads from the staging file.  to_csv writes a NaN as
\* the empty field (na_rep is left at ""), and LOAD DATA reads an empty
\* field of a numeric column as 0: only \N stands for NULL.
LoadDataRows(records) ==
    LET field(x) == IF x.nan THEN Num(0) ELSE x
    IN  [i \in 1..Len(records) |->
            [records[i] EXCEPT !.tpm = field(@), !.fpkm = field(@), !.fpkm_uq = field(@)]]

\* Where the fallback loop can stop.  records = merged_df.values.tolist()
\* holds float nan for a NaN, which pymysql refuses to escape ("nan can not
\* be used with MySQL"): executemany raises on a batch with such a record,
\* if the loop gets that far.
FallbackFailures(records) ==
    {f \in BatchFailures(records) :
        \A k \in 1..NumBatches(records) :
            (\E i \in 1..Len(Batch(records, k)) : HasNaN(Batch(records, k)[i]))
            => /\ f.batch # 0
               /\ f.batch < k \/ (f.batch = k /\ f.kind = "raises")}

\* The ways one load can go: the staging file cannot be written; the bulk
\* load succeeds; or the bulk load fails (before a row is written, or at
\* its commit) and the row-batched fallback runs, to its end or to a
\* failing batch.
LoadPaths(records) ==
    {[staging |-> "raises", bulk |-> "none", fallback |-> [batch |-> 0, kind |-> "none"]],
     [staging |-> "ok", bulk |-> "ok", fallback |-> [batch |-> 0, kind |-> "none"]]}
    \cup {[staging |-> "ok", bulk |-> b, fallback |-> f] :
             b \in {"raises", "commit_raises"}, f \in FallbackFailures(records)}

\* The batches whose executemany returned, and the number of commits that
\* returned, in a fallback stopped by `failure`.
ExecutedBatches(records, failure) ==
    LET n == IF failure.batch = 0 THEN NumBatches(records)
             ELSE IF failure.kind = "raises" THEN failure.batch - 1
             ELSE failure.batch
    IN  [k \in 1..n |-> Batch(records, k)]
FallbackCommits(records, failure) ==
    IF failure.batch = 0 THEN NumBatches(records) ELSE failure.batch - 1

\* The position of populate_gene_expressions_table after one call.
AfterExpressionSet ==
    IF pc.prefix < Len(Prefixes)
    THEN [at |-> "expressions", site |-> pc.site, prefix |-> pc.prefix + 1]
    ELSE IF pc.site < Len(cancer_names)
    THEN [at |-> "expressions", site |-> pc.site + 1, prefix |-> 1]
    ELSE [at |-> "scores", site |-> 1]

\* The staging file of the call in progress.
StagingFile == <<run, cancer_names[pc.site], Prefixes[pc.prefix]>>

ExpressionFilesOf(cancer_name, prefix) ==
    [j \in 1..3 |-> FileAt(fs[cancer_name], FileName(prefix, Norms[j]))]

\* One call of process_expression_set(conn, folder_path, prefix, ...).
ProcessExpressionSet ==
    /\ pc.at = "expressions"
    /\ LET cancer_name == cancer_names[pc.site]
           prefix == Prefixes[pc.prefix]
           files == ExpressionFilesOf(cancer_name, prefix)
           call == [op |-> "process_expression_set", site |-> cancer_name, prefix |-> prefix]
       IN  IF MissingFiles(files)
           THEN /\ pc' = AfterExpressionSet
                /\ last' = call @@ [outcome |-> "skipped", raised |-> FALSE]
                /\ UNCHANGED <<db, durable, tmp_files>>
           ELSE IF \E j \in 1..3 : files[j].kind # "csv"
           THEN /\ pc' = [at |-> "except"]
                /\ last' = call @@ [outcome |-> "read_raises", raised |-> TRUE]
                /\ UNCHANGED <<db, durable, tmp_files>>
           ELSE LET records == ResolvedRows(files[1], files[2], files[3],
                                            maps.gene_map, maps.sample_map)
                    loaded == [db EXCEPT !.gene_expressions =
                                  ExecuteMany("gene_expressions", db.gene_expressions,
                                              LoadDataRows(records))]
                IN  \E path \in LoadPaths(records) :
                      LET after_bulk == IF path.bulk = "raises" THEN db ELSE loaded
                          raised == path.staging = "raises" \/
                                    (path.bulk # "ok" /\ path.fallback.batch # 0)
                      IN  /\ db' = IF path.staging = "raises" THEN db
                                   ELSE IF path.bulk = "ok" THEN loaded
                                   ELSE ViewAfterBatches("gene_expressions",
                                                         records, path.fallback, after_bulk)
                          /\ durable' = IF path.staging = "raises" THEN durable
                                        ELSE IF path.bulk = "ok" THEN loaded
                                        ELSE CommittedAfterBatches("gene_expressions",
                                                 records, path.fallback, after_bulk, durable)
                          \* The file is made before the try block: only the
                          \* finally of that block removes it.
                          /\ tmp_files' = IF path.staging = "raises"
                                          THEN tmp_files \cup {StagingFile} ELSE tmp_files
                          /\ pc' = IF raised THEN [at |-> "except"] ELSE AfterExpressionSet
                          /\ last' = call @@
                                [outcome |-> IF path.staging = "raises" THEN "staging_raises"
                                             ELSE IF path.bulk = "ok" THEN "bulk_loaded"
                                             ELSE IF path.fallback.batch = 0 THEN "fallback_loaded"
                                             ELSE "fallback_raises",
                                 raised |-> raised,
                                 records |-> records,
                                 bulk |-> path.bulk,
                                 batches |-> IF path.staging = "ok" /\ path.bulk # "ok"
                                             THEN ExecutedBatches(records, path.fallback)
                                             ELSE <<>>,
                                 commits |-> IF path.staging = "raises" THEN 0
                                             ELSE IF path.bulk = "ok" THEN 1
                                             ELSE FallbackCommits(records, path.fallback),
                                 view_before |-> db,
                                 durable_before |-> durable]
    /\ steps' = IF pc.site = 1 /\ pc.prefix = 1
                THEN Append(steps, "populate_gene_expressions_table") ELSE steps
    /\ UNCHANGED <<arg, result, fs, cancer_names, conn, maps, run, first_run>>

(***************************************************************************)
(* scripts/DEPTH_ITH.py                                                    *)
(***************************************************************************)
\* None, and a frame with no row: depth_calculation treats both alike.
NoFrame == [index |-> <<>>, columns |-> <<>>, values |-> <<>>]

\* DataFrame.empty
Empty(df) == Len(df.index) = 0 \/ Len(df.columns) = 0

\* df.mean(axis=1, skipna=True) of the row labelled `gene`, kept exact as
\* sum and count; a label the frame does not hold has no mean.
MeanRef(ref, gene) ==
    IF \E g \in 1..Len(ref.index) : ref.index[g] = gene
    THEN LET xs == Present(ref.values[CHOOSE g \in 1..Len(ref.index) : ref.index[g] = gene])
         IN  [sum |-> SumSeq(xs), n |-> Len(xs)]
    ELSE [sum |-> 0, n |-> 0]

\* The mutant: the tumor matrix is its own reference even when normal
\* samples are passed.
depth_calculation_tumor_reference(tumor_df, normal_df) ==
    IF Empty(tumor_df) THEN <<>>
    ELSE LET score(g, c) ==
                 LET x == tumor_df.values[g][c]
                     m == MeanRef(tumor_df, tumor_df.index[g])
                 IN  IF x.nan \/ m.n = 0 THEN NaN
                     ELSE Num(((m.n * x.v - m.sum) * (m.n * x.v - m.sum))
                              \div (m.n * m.n * Scale))
         IN  [c \in 1..Len(tumor_df.columns) |->
                 PandasStd([g \in 1..Len(tumor_df.index) |-> score(g, c)])]

\* The mutant: no early return for an empty tumor matrix.
depth_calculation_unguarded(tumor_df, normal_df) ==
    LET ref == IF ~Empty(normal_df) THEN normal_df ELSE tumor_df
        score(g, c) ==
            LET x == tumor_df.values[g][c]
                m == MeanRef(ref, tumor_df.index[g])
            IN  IF x.nan \/ m.n = 0 THEN NaN
                ELSE Num(((m.n * x.v - m.sum) * (m.n * x.v - m.sum))
                         \div (m.n * m.n * Scale))
    IN  [c \in 1..Len(tumor_df.columns) |->
            PandasStd([g \in 1..Len(tumor_df.index) |-> score(g, c)])]

\* depth_calculation: per tumor sample, the standard deviation (pandas:
\* skipna, ddof = 1) over genes of the squared deviation from the
\* reference mean; the reference is normal_df when it has rows, else the
\* tumor matrix itself.
depth_calculation(tumor_df, normal_df) ==
    IF Empty(tumor_df) THEN <<>>
    ELSE LET ref == IF ~Empty(normal_df) THEN normal_df ELSE tumor_df
             score(g, c) ==
                 LET x == tumor_df.values[g][c]
                     m == MeanRef(ref, tumor_df.index[g])
                 IN  IF x.nan \/ m.n = 0 THEN NaN
                     ELSE Num(((m.n * x.v - m.sum) * (m.n * x.v - m.sum))
                              \div (m.n * m.n * Scale))
         IN  [c \in 1..Len(tumor_df.columns) |->
                 PandasStd([g \in 1..Len(tumor_df.index) |-> score(g, c)])]

(***************************************************************************)
(* depth_calculation on its own: every bounded tumor matrix against every  *)
(* bounded normal matrix, None and the empty frames included.              *)
(***************************************************************************)
MaxIthGenes == 2
MaxTumorSamples == 2
MaxNormalSamples == 2

IthLabels(n) == [g \in 1..n |-> "ENSG" \o ToString(g)]

\* A frame without rows that still has columns, and one with rows and no
\* column: both are DataFrame.empty.
NoRows == [index |-> <<>>, columns |-> <<"A", "B">>, values |-> <<>>]
NoColumns == [index |-> <<"ENSG1">>, columns |-> <<>>, values |-> << <<>> >>]
EmptyFrames == {NoFrame, NoRows, NoColumns}

\* Tumor rows of n entries: two ramps, a constant and a ramp whose first
\* entry is missing.
IthTumorRows(n) ==
    LET ramp == [c \in 1..n |-> Num(c * Scale)]
        steep == [c \in 1..n |-> Num(3 * (c - 1) * Scale)]
        const2 == [c \in 1..n |-> Num(2 * Scale)]
    IN  {ramp, steep, const2, [ramp EXCEPT ![1] = NaN]}

\* Normal rows of k entries: zeros, a ramp, and the ramp with its first
\* entry missing.
IthNormalRows(k) ==
    LET zeros == [c \in 1..k |-> Num(0)]
        ramp == [c \in 1..k |-> Num(c * Scale)]
    IN  {zeros, ramp, [ramp EXCEPT ![1] = NaN]}

IthTumors ==
    UNION {
        {[index |-> IthLabels(Len(rows)), columns |-> SubSeq(StudyBarcodes, 1, n),
          values |-> rows] : rows \in SeqsUpTo(IthTumorRows(n), MaxIthGenes) \ {<<>>}}
        : n \in 1..MaxTumorSamples}

Reverse(q) == [i \in 1..Len(q) |-> q[Len(q) + 1 - i]]

\* Normal matrices over the genes of the tumor matrix, the genes listed in
\* the tumor's order or in the reverse order.
IthNormals(genes) ==
    UNION {
        {[index |-> IF reversed THEN Reverse(IthLabels(genes)) ELSE IthLabels(genes),
          columns |-> [c \in 1..k |-> "N" \o ToString(c)],
          values |-> rows] : rows \in [1..genes -> IthNormalRows(k)], reversed \in BOOLEAN}
        : k \in 1..MaxNormalSamples}

InitDepthIth ==
    /\ \E tumor_df \in IthTumors \cup EmptyFrames :
         \E normal_df \in IthNormals(IF tumor_df.index = <<>> THEN 1 ELSE Len(tumor_df.index)) \cup EmptyFrames :
            arg = [fn |-> "depth_calculation", tumor_df |-> tumor_df, normal_df |-> normal_df]
    /\ result = Pending
    /\ PipelineIdle

CallDepth ==
    /\ result = Pending
    /\ arg.fn = "depth_calculation"
    /\ result' = Returned(depth_calculation(arg.tumor_df, arg.normal_df))
    /\ UNCHANGED <<arg, pipeVars>>

SpecDepthIth == InitDepthIth /\ [][CallDepth]_vars

\* C12: the reference of a gene is the mean of the non-missing normal
\* values of that gene when a non-empty normal matrix is passed, and of
\* the non-missing tumor values when the normal matrix is None or empty;
\* the score of a tumor sample is the (sample) standard deviation, over the
\* genes where both the value and the reference exist, of the squared
\* deviations (value - reference)^2.
C12_DepthReference ==
    (result.done /\ arg.fn = "depth_calculation" /\ ~Empty(arg.tumor_df)) =>
        LET tumor == arg.tumor_df
            reference == IF arg.normal_df \in EmptyFrames THEN tumor ELSE arg.normal_df
            RowOf(g) == {r \in 1..Len(reference.index) : reference.index[r] = tumor.index[g]}
            there(g) == {<<r, c>> \in RowOf(g) \X (1..Len(reference.columns)) :
                            ~reference.values[r][c].nan}
            count(g) == Cardinality(there(g))
            RECURSIVE Total(_)
            Total(cells) ==
                IF cells = {} THEN 0
                ELSE LET rc == CHOOSE x \in cells : TRUE
                     IN  reference.values[rc[1]][rc[2]].v + Total(cells \ {rc})
            \* (value - mean)^2 in units of 1/Scale, rounded down
            squared(g, c) ==
                ((count(g) * tumor.values[g][c].v - Total(there(g)))
                   * (count(g) * tumor.values[g][c].v - Total(there(g))))
                \div (count(g) * count(g) * Scale)
        IN  /\ Len(result.value) = Len(tumor.columns)
            /\ \A c \in 1..Len(tumor.columns) :
                 LET used == {g \in 1..Len(tumor.index) :
                                 ~tumor.values[g][c].nan /\ count(g) > 0}
                     m == Cardinality(used)
                     RECURSIVE Sum(_)
                     Sum(gs) == IF gs = {} THEN 0
                                ELSE LET g == CHOOSE x \in gs : TRUE
                                     IN  squared(g, c) + Sum(gs \ {g})
                     RECURSIVE Spread(_)
                     Spread(gs) ==
                         IF gs = {} THEN 0
                         ELSE LET g == CHOOSE x \in gs : TRUE
                              IN  (m * squared(g, c) - Sum(used)) * (m * squared(g, c) - Sum(used))
                                  + Spread(gs \ {g})
                     r == result.value[c]
                 IN  IF m <= 1 THEN r.nan
                     ELSE /\ ~r.nan
                          /\ r.v >= 0
                          /\ r.v * r.v * (m * m * (m - 1)) <= Spread(used)
                          /\ (r.v + 1) * (r.v + 1) * (m * m * (m - 1)) > Spread(used)

\* Two genes scored against normal samples that hold a missing value, with
\* scores that differ from the ones the tumor's own means would give.
C12_Witness ==
    /\ result.done
    /\ arg.fn = "depth_calculation"
    /\ Len(arg.tumor_df.index) = 2
    /\ Len(arg.tumor_df.columns) = 2
    /\ arg.normal_df \notin EmptyFrames
    /\ \E g \in 1..2 : arg.normal_df.values[g][1].nan
    /\ \A c \in 1..2 : ~result.value[c].nan
    /\ result.value # depth_calculation(arg.tumor_df, NoFrame)

\* C13: called with a tumor matrix that is None or empty, depth_calculation
\* returns a result with no sample, whatever the normal matrix is.
C13_EmptyTumorEmptyResult ==
    (result.done /\ arg.fn = "depth_calculation" /\ arg.tumor_df \in EmptyFrames) =>
        result.value = <<>>

\* An empty tumor frame that has columns, passed with normal samples.
C13_Witness ==
    /\ result.done
    /\ arg.fn = "depth_calculation"
    /\ arg.tumor_df = NoRows
    /\ arg.normal_df \notin EmptyFrames
    /\ result.value = <<>>

(***************************************************************************)
(* populate_depth_scores                                                   *)
(***************************************************************************)
RECURSIVE Pow(_, _)
Pow(b, e) == IF e = 0 THEN 1 ELSE b * Pow(b, e - 1)

\* np.log2(x + 1) of a float holding an integer of at most 7, rounded down
\* to the unit: the largest e with 2^e <= (x + 1)^Scale.
Log2p1(x) ==
    IF x.nan THEN NaN
    ELSE LET m == (x.v \div Scale) + 1
         IN  Num(Max({e \in 0..(3 * Scale) : Pow(2, e) <= Pow(m, Scale)}))

\* The tumor file of one normalization: the .csv, else the .csv.gz.
TumorPath(folder, norm) ==
    IF Exists(FileAt(folder, FileName("tumor", norm)))
    THEN FileAt(folder, FileName("tumor", norm))
    ELSE FileAt(folder, FileName("tumor", norm) \o ".gz")

\* df.set_index('gene_id')[sample_columns] raises KeyError unless the file
\* has every column asked for.
HasColumns(df, sample_columns) == Range(sample_columns) \subseteq Range(df.sample_columns)

\* np.log2(df.set_index('gene_id')[sample_columns].apply(pd.to_numeric,
\* errors='coerce') + 1)
Log2Matrix(df, sample_columns) ==
    [index |-> [g \in 1..Len(df.rows) |-> df.rows[g].gene_id],
     columns |-> sample_columns,
     values |-> [g \in 1..Len(df.rows) |->
                   [c \in 1..Len(sample_columns) |->
                       Log2p1(ToNumeric(df.rows[g].cells[
                           CHOOSE k \in 1..Len(df.sample_columns) :
                               df.sample_columns[k] = sample_columns[c]]))]]]

\* The mutant: a record for every sample column.
ScoredColumnsAll(sample_columns, sample_map) == 1..Len(sample_columns)

\* The columns that get a record: `if sample_id:`.
ScoredColumns(sample_columns, sample_map) ==
    {c \in 1..Len(sample_columns) : Get(sample_map, sample_columns[c]) # 0}

\* series.get(barcode), then float(v) if pd.notna(v) else None: a series
\* that is None or empty, and a NaN, give NULL (the missing float).
ScoreAt(series, c) == IF c \in DOMAIN series THEN series[c] ELSE NaN

\* depth2_records / depth_records, in column order.
ScoreRecords(sample_columns, sample_map, tpm, fpkm, fpkm_uq) ==
    LET kept == SelectSeq([c \in 1..Len(sample_columns) |-> c],
                          LAMBDA c : c \in ScoredColumns(sample_columns, sample_map))
    IN  [i \in 1..Len(kept) |->
            [sample_id |-> Get(sample_map, sample_columns[kept[i]]),
             tpm |-> ScoreAt(tpm, kept[i]),
             fpkm |-> ScoreAt(fpkm, kept[i]),
             fpkm_uq |-> ScoreAt(fpkm_uq, kept[i])]]

\* The position of populate_depth_scores after one site; after the last
\* site main falls through to its finally block.
AfterDepthSite(zscore_returns_frame, site_errors) ==
    IF pc.site < Len(cancer_names)
    THEN [at |-> "scores", site |-> pc.site + 1,
          zscore_returns_frame |-> zscore_returns_frame, site_errors |-> site_errors]
    ELSE [at |-> "finally", raised |-> FALSE, site_errors |-> site_errors]

\* The mutant: a site is scored only when its three tumor matrices exist.
SiteScoresAllRequired(folder, sample_map, zscore_returns_frame) ==
    LET tpm_df == TumorPath(folder, "tpm")
        fpkm_df == TumorPath(folder, "fpkm")
        fpkm_uq_df == TumorPath(folder, "fpkm_uq")
        left(outcome) == [outcome |-> outcome, sample_columns |-> <<>>,
                          depth2_records |-> <<>>, depth_records |-> <<>>]
    IN  IF \E f \in {tpm_df, fpkm_df, fpkm_uq_df} : ~Exists(f) THEN left("no_tpm")
        ELSE IF tpm_df.kind # "csv" THEN left("error")
        ELSE IF tpm_df.sample_columns = <<>> THEN left("no_samples")
        ELSE IF \E f \in {fpkm_df, fpkm_uq_df} :
                   f.kind # "csv" \/ ~HasColumns(f, tpm_df.sample_columns)
        THEN left("error")
        ELSE
          LET sample_columns == tpm_df.sample_columns
              depth2(f) == depth2_calculation(Log2Matrix(f, sample_columns), zscore_returns_frame)
              depth(f) == depth_calculation(Log2Matrix(f, sample_columns), NoFrame)
          IN  [outcome |-> "computed",
               sample_columns |-> sample_columns,
               depth2_records |-> ScoreRecords(sample_columns, sample_map,
                                     depth2(tpm_df), depth2(fpkm_df), depth2(fpkm_uq_df)),
               depth_records |-> ScoreRecords(sample_columns, sample_map,
                                    depth(tpm_df), depth(fpkm_df), depth(fpkm_uq_df))]

\* What one iteration of the site loop computes from the site's folder,
\* before anything is written: the reason the site is left, or the records
\* of the two tables.
SiteScores(folder, sample_map, zscore_returns_frame) ==
    LET tpm_df == TumorPath(folder, "tpm")
        fpkm_df == TumorPath(folder, "fpkm")
        fpkm_uq_df == TumorPath(folder, "fpkm_uq")
        left(outcome) == [outcome |-> outcome, sample_columns |-> <<>>,
                          depth2_records |-> <<>>, depth_records |-> <<>>]
    IN  IF ~Exists(tpm_df) THEN left("no_tpm")
        ELSE IF tpm_df.kind # "csv" THEN left("error")
        ELSE IF tpm_df.sample_columns = <<>> THEN left("no_samples")
        ELSE IF \E f \in {fpkm_df, fpkm_uq_df} :
                   Exists(f) /\ (f.kind # "csv" \/ ~HasColumns(f, tpm_df.sample_columns))
        THEN left("error")
        ELSE
          LET sample_columns == tpm_df.sample_columns
              matrix(f) == IF Exists(f) THEN Log2Matrix(f, sample_columns) ELSE NoFrame
              depth2(f) == IF Exists(f)
                           THEN depth2_calculation(matrix(f), zscore_returns_frame)
                           ELSE <<>>
              depth(f) == IF Exists(f) THEN depth_calculation(matrix(f), NoFrame)
                          ELSE <<>>
          IN  [outcome |-> "computed",
               sample_columns |-> sample_columns,
               depth2_records |-> ScoreRecords(sample_columns, sample_map,
                                     depth2(tpm_df), depth2(fpkm_df), depth2(fpkm_uq_df)),
               depth_records |-> ScoreRecords(sample_columns, sample_map,
                                    depth(tpm_df), depth(fpkm_df), depth(fpkm_uq_df))]

\* One iteration of the site loop of populate_depth_scores.  Whatever is
\* raised inside the try block is caught and the loop goes on; site_errors
\* tells whether some site's error has been printed so far.
PopulateDepthScores ==
    /\ pc.at = "scores"
    /\ \E zscore_returns_frame \in
            (IF "zscore_returns_frame" \in DOMAIN pc THEN {pc.zscore_returns_frame}
             ELSE BOOLEAN) :
         LET cancer_name == cancer_names[pc.site]
             computed == SiteScores(fs[cancer_name], maps.sample_map, zscore_returns_frame)
             call == [op |-> "populate_depth_scores", site |-> cancer_name,
                      zscore_returns_frame |-> zscore_returns_frame,
                      view_before |-> db, durable_before |-> durable]
             site_errors == "site_errors" \in DOMAIN pc /\ pc.site_errors
         IN  IF computed.outcome # "computed"
             THEN /\ last' = call @@ [outcome |-> computed.outcome]
                  /\ pc' = AfterDepthSite(zscore_returns_frame,
                                          site_errors \/ computed.outcome = "error")
                  /\ UNCHANGED <<db, durable>>
             ELSE
               LET depth2_records == computed.depth2_records
                   depth_records == computed.depth_records
                   with_depth2 == [db EXCEPT !.depth2_scores =
                                      ExecuteMany("depth2_scores", db.depth2_scores, depth2_records)]
                   with_both == [with_depth2 EXCEPT !.depth_scores =
                                    ExecuteMany("depth_scores", db.depth_scores, depth_records)]
               IN  \E first \in IF depth2_records = <<>> THEN {"ok"} ELSE Outcomes,
                      second \in IF depth_records = <<>> THEN {"ok"} ELSE Outcomes :
                     /\ first # "ok" => second = "ok"
                     /\ pc' = AfterDepthSite(zscore_returns_frame,
                                  site_errors \/ first # "ok" \/ second # "ok")
                     /\ db' = IF first = "raises" THEN db
                              ELSE IF first = "commit_raises" \/ second = "raises"
                              THEN with_depth2
                              ELSE with_both
                     /\ durable' = IF first # "ok" \/ depth2_records = <<>> THEN durable
                                   ELSE IF second = "ok" THEN with_both
                                   ELSE with_depth2
                     /\ last' = call @@
                           [outcome |-> IF first = "ok" /\ second = "ok"
                                        THEN "scored" ELSE "error",
                            sample_columns |-> computed.sample_columns,
                            writes |-> <<first, second>>,
                            depth2_records |-> depth2_records,
                            depth_records |-> depth_records]
    /\ steps' = IF pc.site = 1 THEN Append(steps, "populate_depth_scores") ELSE steps
    /\ UNCHANGED <<arg, result, fs, cancer_names, conn, maps, tmp_files, run, first_run>>

(***************************************************************************)
(* main: the handler, the finally block, and a second run of the script.   *)
(***************************************************************************)
\* The mutant: the handler rolls back and swallows the exception.
MainExceptSwallows ==
    /\ pc.at = "except"
    /\ db' = durable
    /\ pc' = [at |-> "finally", raised |-> FALSE, site_errors |-> FALSE]
    /\ last' = [op |-> "rollback", failed |-> last]
    /\ steps' = Append(steps, "conn.rollback")
    /\ UNCHANGED <<arg, result, fs, cancer_names, conn, durable, maps, tmp_files,
                   run, first_run>>

\* The mutant: the handler rolls back and raises past the finally block.
MainExceptWithoutFinally ==
    /\ pc.at = "except"
    /\ db' = durable
    /\ pc' = [at |-> "returned", raised |-> TRUE, site_errors |-> FALSE]
    /\ result' = Returned("raised")
    /\ last' = [op |-> "rollback", failed |-> last]
    /\ steps' = Append(steps, "conn.rollback")
    /\ UNCHANGED <<arg, fs, cancer_names, conn, durable, maps, tmp_files, run, first_run>>

\* except Exception: conn.rollback(); raise
MainExcept ==
    /\ pc.at = "except"
    /\ db' = durable
    /\ pc' = [at |-> "finally", raised |-> TRUE, site_errors |-> FALSE]
    /\ last' = [op |-> "rollback", failed |-> last]
    /\ steps' = Append(steps, "conn.rollback")
    /\ UNCHANGED <<arg, result, fs, cancer_names, conn, durable, maps, tmp_files,
                   run, first_run>>

\* finally: conn.close().  Closing discards what was not committed.
MainFinally ==
    /\ pc.at = "finally"
    /\ conn' = "closed"
    /\ db' = durable
    /\ pc' = [at |-> "returned", raised |-> pc.raised, site_errors |-> pc.site_errors]
    /\ result' = Returned(IF pc.raised THEN "raised" ELSE "None")
    /\ last' = [op |-> "close"]
    /\ steps' = Append(steps, "conn.close")
    /\ UNCHANGED <<arg, fs, cancer_names, durable, maps, tmp_files, run, first_run>>

\* The script is started again on the same data directory and database,
\* after a first run that returned without raising and printed no error.
Rerun ==
    /\ pc.at = "returned"
    /\ ~pc.raised
    /\ ~pc.site_errors
    /\ run = "first"
    /\ run' = "second"
    /\ first_run' = durable
    /\ pc' = [at |-> "start"]
    /\ result' = Pending
    /\ cancer_names' = <<>>
    /\ conn' = "none"
    /\ maps' = NoMaps
    /\ last' = NoOperation
    /\ steps' = <<>>
    /\ UNCHANGED <<arg, fs, db, durable, tmp_files>>

(***************************************************************************)
(* The data directories of the study.                                      *)
(***************************************************************************)
Csv(sample_columns, rows) == [kind |-> "csv", sample_columns |-> sample_columns, rows |-> rows]
GeneRow(gene_id, gene_name, cells) ==
    [gene_id |-> gene_id, gene_name |-> gene_name, cells |-> cells]
Sheet(columns, rows) == [kind |-> "csv", columns |-> columns, rows |-> rows]
SheetRow(sample_barcode, sample_type, tcga_code) ==
    [sample_barcode |-> Text(sample_barcode), sample_type |-> Text(sample_type),
     tcga_code |-> tcga_code]

SheetColumns == {"sample_barcode", "sample_type", "tcga_code"}

\* Brain: two genes, tumor samples T1 and T2, normal sample N1, a sheet
\* with an explicit code column.
BrainTumor(a, b, c, d) ==
    Csv(<<"T1", "T2">>, <<GeneRow("ENSG1", "S1", <<a, b>>), GeneRow("ENSG2", "S2", <<c, d>>)>>)
BrainNormal(a, b) ==
    Csv(<<"N1">>, <<GeneRow("ENSG1", "S1", <<a>>), GeneRow("ENSG2", "S2", <<b>>)>>)
BrainFiles ==
    ("tumor_tpm.csv" :> BrainTumor("0", "3", "7", "1")) @@
    ("tumor_fpkm.csv" :> BrainTumor("1", "3", "5", "0")) @@
    ("tumor_fpkm_uq.csv" :> BrainTumor("2", "7", "3", "1")) @@
    ("normal_tpm.csv" :> BrainNormal("1", "2")) @@
    ("normal_fpkm.csv" :> BrainNormal("3", "4")) @@
    ("normal_fpkm_uq.csv" :> BrainNormal("5", "6"))
BrainSheet ==
    Sheet(SheetColumns,
          <<SheetRow("T1", "Primary Tumor", Text("GBM")),
            SheetRow("T2", "Recurrent Tumor", Text("LGG")),
            SheetRow("N1", "Solid Tissue Normal", Text("GBM"))>>)
Brain == [sheet |-> BrainSheet, files |-> BrainFiles]

\* Breast: one gene, one tumor sample named by a TCGA barcode, no normal
\* matrices, a sheet without the code column.
BreastTumor(gene_name, a) ==
    Csv(<<"TCGA-AB-1234-01">>, <<GeneRow("ENSG1", gene_name, <<a>>)>>)
BreastFiles(gene_name) ==
    ("tumor_tpm.csv" :> BreastTumor(gene_name, "4")) @@
    ("tumor_fpkm.csv" :> BreastTumor(gene_name, "5")) @@
    ("tumor_fpkm_uq.csv" :> BreastTumor(gene_name, "6")) @@
    ("normal_tpm.csv" :> Missing) @@
    ("normal_fpkm.csv" :> Missing) @@
    ("normal_fpkm_uq.csv" :> Missing)
BreastSheet(rows) == Sheet({"sample_barcode", "sample_type"}, rows)
BreastRow == SheetRow("TCGA-AB-1234-01", "Metastatic", NaCell)
Breast == [sheet |-> BreastSheet(<<BreastRow>>), files |-> BreastFiles("S1")]

\* Brain with a tumor column U1 that no sheet lists.
BrainUnlistedSample ==
    LET extra(f, a, b) ==
            Csv(Append(f.sample_columns, "U1"),
                <<[f.rows[1] EXCEPT !.cells = Append(@, a)],
                  [f.rows[2] EXCEPT !.cells = Append(@, b)]>>)
    IN  [Brain EXCEPT
            !.files["tumor_tpm.csv"] = extra(@, "2", "6"),
            !.files["tumor_fpkm.csv"] = extra(@, "2", "2"),
            !.files["tumor_fpkm_uq.csv"] = extra(@, "4", "0")]

\* Brain whose normal matrices list a gene that tumor_tpm.csv does not.
BrainUnlistedGene ==
    LET extra(f, a) == Csv(f.sample_columns, Append(f.rows, GeneRow("ENSG3", "S3", <<a>>)))
    IN  [Brain EXCEPT
            !.files["normal_tpm.csv"] = extra(@, "1"),
            !.files["normal_fpkm.csv"] = extra(@, "2"),
            !.files["normal_fpkm_uq.csv"] = extra(@, "3")]

\* Two sites whose matrices give one gene identifier two display symbols.
TwoSymbols == ("Brain" :> Brain) @@ ("Breast" :> [Breast EXCEPT !.files = BreastFiles("S9")])

\* Two sites whose sheets both list the barcode T1.
TwoSheets ==
    ("Brain" :> Brain)
    @@ ("Breast" :> [Breast EXCEPT !.sheet =
                        BreastSheet(<<BreastRow, SheetRow(" T1 ", "Normal", NaCell)>>)])

\* Other contents the tumor matrix of one normalization could have: the
\* same columns with other numbers, and the matrix without its last sample
\* column.
SameColumnsOtherCells(file) ==
    Csv(file.sample_columns,
        [g \in 1..Len(file.rows) |->
            [file.rows[g] EXCEPT !.cells = [c \in 1..Len(@) |-> "1"]]])
WithoutLastColumn(file) ==
    Csv(SubSeq(file.sample_columns, 1, Len(file.sample_columns) - 1),
        [g \in 1..Len(file.rows) |->
            [file.rows[g] EXCEPT !.cells = SubSeq(@, 1, Len(@) - 1)]])
OtherMatrices(file) == {SameColumnsOtherCells(file), WithoutLastColumn(file)}

\* Brain whose tumor_fpkm.csv lacks the sample column T2, followed by Breast.
FpkmWithoutColumn ==
    ("Brain" :> [Brain EXCEPT !.files["tumor_fpkm.csv"] = WithoutLastColumn(@)])
    @@ ("Breast" :> Breast)

\* Brain without tumor_fpkm.csv and Breast without tumor_tpm.csv.
TumorFilesAbsent ==
    ("Brain" :> [Brain EXCEPT !.files["tumor_fpkm.csv"] = Missing])
    @@ ("Breast" :> [Breast EXCEPT !.files["tumor_tpm.csv"] = Missing])

\* Brain with a normal matrix that cannot be read, followed by Breast.
UnreadableNormal ==
    ("Brain" :> [Brain EXCEPT !.files["normal_fpkm.csv"] = Malformed]) @@ ("Breast" :> Breast)

\* Brain with a sheet that cannot be read, followed by Breast.
UnreadableSheet == ("Brain" :> [Brain EXCEPT !.sheet = Malformed]) @@ ("Breast" :> Breast)

\* Brain with a sheet whose tcga_code column holds the number 7 in every
\* row, followed by Breast.
NumericCodes ==
    ("Brain" :> [Brain EXCEPT !.sheet =
                    Sheet(SheetColumns,
                          <<SheetRow("T1", "Primary Tumor", Number("7")),
                            SheetRow("N1", "Solid Tissue Normal", Number("7"))>>)])
    @@ ("Breast" :> Breast)

DataDirs ==
    {\* no folder with an expression file
     [f \in {} |-> Brain],
     \* the two sites as described
     ("Brain" :> Brain) @@ ("Breast" :> Breast),
     \* a tumor sample that no sheet lists
     ("Brain" :> BrainUnlistedSample),
     \* a gene outside the gene map
     ("Brain" :> BrainUnlistedGene),
     \* one normalization of the tumor class absent
     ("Brain" :> [Brain EXCEPT !.files["tumor_fpkm_uq.csv"] = Missing])
         @@ ("Breast" :> Breast),
     \* one site without its FPKM tumor matrix, one without its TPM tumor matrix
     TumorFilesAbsent,
     TwoSymbols,
     TwoSheets,
     \* a site outside the predefined names, its sheet absent
     ("Brain" :> Brain) @@ ("Nasopharynx" :> [Breast EXCEPT !.sheet = Missing]),
     \* a matrix that cannot be read
     UnreadableNormal,
     \* a sheet that cannot be read, a sheet whose codes are numbers
     UnreadableSheet,
     NumericCodes,
     \* a matrix without one of the TPM sample columns
     FpkmWithoutColumn,
     ("Brain" :> [Brain EXCEPT !.files["tumor_tpm.csv"] = Malformed])}

MainIdle ==
    /\ arg = [fn |-> "main"]
    /\ result = Pending
    /\ cancer_names = <<>>
    /\ conn = "none"
    /\ db = EmptyDb
    /\ durable = EmptyDb
    /\ maps = NoMaps
    /\ pc = [at |-> "start"]
    /\ tmp_files = {}
    /\ last = NoOperation
    /\ run = "first"
    /\ first_run = EmptyDb
    /\ steps = <<>>

Init == fs \in DataDirs /\ MainIdle

Next ==
    \/ MainStart
    \/ PopulateGenes
    \/ PopulateSites
    \/ PopulateCancerTypes
    \/ PopulateSamples
    \/ ProcessExpressionSet
    \/ PopulateDepthScores
    \/ MainExcept
    \/ MainFinally

Spec == Init /\ [][Next]_vars

\* main as a sequential program that is run to its end: every call it
\* makes returns or raises, so no step is postponed for ever.
MainDirs ==
    {[f \in {} |-> Brain],
     ("Brain" :> Brain) @@ ("Breast" :> Breast),
     UnreadableNormal}

InitMain == fs \in MainDirs /\ MainIdle

\* The positions main can be at, and the step that takes main from one
\* position to another before it has returned.
Positions ==
    {[at |-> a] : a \in {"start", "genes", "sites", "cancer_types", "samples", "except"}}
    \cup {[at |-> "expressions", site |-> i, prefix |-> p] :
              i \in 1..Len(cancer_names), p \in 1..Len(Prefixes)}
    \cup {[at |-> "scores", site |-> 1]}
    \cup {[at |-> "scores", site |-> i, zscore_returns_frame |-> z, site_errors |-> e] :
              i \in 1..Len(cancer_names), z \in BOOLEAN, e \in BOOLEAN}
    \cup {[at |-> a, raised |-> r, site_errors |-> e] :
              a \in {"finally", "returned"}, r \in BOOLEAN, e \in BOOLEAN}

MainProceeds == pc.at # "returned" /\ pc' \in Positions /\ pc' # pc

SpecMainFair == InitMain /\ [][Next]_vars /\ WF_pc(MainProceeds)

(***************************************************************************)
(* The cancer-type study: populate_cancer_types_table on two folders whose *)
(* sheets are drawn from a bounded set of codes, over a cancer_types table *)
(* that an earlier run may have filled.                                    *)
(***************************************************************************)
StudyCodes == {NaCell, Text("GBM"), Text(" LGG "), Text(" ")}

StudyCodeSheets ==
    {Sheet(SheetColumns,
           [r \in 1..Len(codes) |-> SheetRow("T" \o ToString(r), "Primary Tumor", codes[r])])
        : codes \in SeqsUpTo(StudyCodes, MaxSheetRows)}

StudySites == ("Brain" :> [id |-> 1]) @@ ("Breast" :> [id |-> 2])

\* The cancer_types table before the run: empty, or left by an earlier run.
StoredCancerTypes ==
    {EmptyTable,
     ("GBM" :> [id |-> 1, site_id |-> 1]),
     ("GBM" :> [id |-> 1, site_id |-> 2]) @@ ("OLD" :> [id |-> 2, site_id |-> 1])}

InitCancerTypes ==
    /\ arg = [fn |-> "main"]
    /\ result = Pending
    /\ \E brain \in StudyCodeSheets, breast \in StudyCodeSheets :
          fs = ("Brain" :> [sheet |-> brain, files |-> BrainFiles])
               @@ ("Breast" :> [sheet |-> breast, files |-> BreastFiles("S1")])
    /\ cancer_names = <<"Brain", "Breast">>
    /\ conn = "open"
    /\ \E stored \in StoredCancerTypes :
          db = [EmptyDb EXCEPT !.sites = StudySites, !.cancer_types = stored]
    /\ durable = db
    /\ maps = [NoMaps EXCEPT !.site_map = IdMap(StudySites)]
    /\ pc = [at |-> "cancer_types"]
    /\ tmp_files = {}
    /\ last = NoOperation
    /\ run = "first"
    /\ first_run = EmptyDb
    /\ steps = <<"get_cancer_sites_from_directory", "get_connection",
                 "populate_genes_table", "populate_sites_table">>

SpecCancerTypes == InitCancerTypes /\ [][PopulateCancerTypes]_vars

\* The codes the sheet of a site lists: the cells of its tcga_code column
\* that hold something else than blanks, trimmed.
ListedCodes(site) ==
    LET sheet == fs[site].sheet
    IN  IF sheet.kind = "csv" /\ "tcga_code" \in sheet.columns
        THEN {Strip(PyStr(sheet.rows[r].tcga_code)) :
                r \in {q \in 1..Len(sheet.rows) :
                          /\ ~sheet.rows[q].tcga_code.na
                          /\ Strip(PyStr(sheet.rows[q].tcga_code)) # ""}}
        ELSE {}

\* The last site, in processing order, whose sheet lists the code.
LastSiteListing(code) ==
    cancer_names[Max({j \in 1..Len(cancer_names) : code \in ListedCodes(cancer_names[j])})]

\* C21: populate_cancer_types_table gives each code one site.  A code that
\* the sheets of several sites list is written once, with the site id of
\* the last site in processing order that lists it; when the write
\* succeeds the stored row of every listed code has that site id, a code
\* stored by an earlier run keeps its id and gets the new site id, and the
\* rows of codes no sheet lists are left as they were.
C21_LastSiteWins ==
    last.op = "populate_cancer_types_table" =>
        LET listed == UNION {ListedCodes(cancer_names[j]) : j \in 1..Len(cancer_names)}
        IN  /\ \A code \in listed :
                  /\ Cardinality({i \in 1..Len(last.records) : last.records[i][1] = code}) = 1
                  /\ \A i \in 1..Len(last.records) :
                        last.records[i][1] = code =>
                            last.records[i][2] = maps.site_map[LastSiteListing(code)]
            /\ \A i \in 1..Len(last.records) : last.records[i][1] \in listed
            /\ last.outcome = "ok" =>
                  /\ DOMAIN durable.cancer_types
                        = DOMAIN last.durable_before.cancer_types \cup listed
                  /\ \A code \in listed :
                        durable.cancer_types[code].site_id
                            = maps.site_map[LastSiteListing(code)]
                  /\ \A code \in DOMAIN last.durable_before.cancer_types :
                        /\ durable.cancer_types[code].id
                              = last.durable_before.cancer_types[code].id
                        /\ code \notin listed =>
                              durable.cancer_types[code]
                                  = last.durable_before.cancer_types[code]

\* GBM, stored with Brain's id by an earlier run and listed by the sheets
\* of Brain and of Breast, now carries Breast's id under its old id.
C21_Witness ==
    /\ last.op = "populate_cancer_types_table"
    /\ last.outcome = "ok"
    /\ "GBM" \in ListedCodes("Brain") \cap ListedCodes("Breast")
    /\ last.durable_before.cancer_types = ("GBM" :> [id |-> 1, site_id |-> 1])
    /\ durable.cancer_types["GBM"] = [id |-> 1, site_id |-> 2]

(***************************************************************************)
(* The site study: populate_sites_table for every set of site folders,     *)
(* over every sites table an earlier run may have left.                    *)
(***************************************************************************)
\* A name no folder and no predefined entry carries any more.
StudySiteNames == Range(SortedFolders) \cup {"Retired"}

\* The sites tables: any of the names, with the ids 1.. in any order.
StoredSites ==
    UNION {{[name \in names |-> [id |-> CHOOSE i \in 1..Len(q) : q[i] = name]]
               : q \in Orderings(names)}
           : names \in SUBSET StudySiteNames}

InitSites ==
    /\ arg = [fn |-> "main"]
    /\ result = Pending
    /\ \E folders \in (SUBSET Range(SortedFolders)) \ {{}} :
          fs = [name \in folders |-> Brain]
    /\ cancer_names = get_cancer_sites_from_directory(fs)
    /\ conn = "open"
    /\ \E stored \in StoredSites : db = [EmptyDb EXCEPT !.sites = stored]
    /\ durable = db
    /\ maps = NoMaps
    /\ pc = [at |-> "sites"]
    /\ tmp_files = {}
    /\ last = NoOperation
    /\ run = "first"
    /\ first_run = EmptyDb
    /\ steps = <<"get_cancer_sites_from_directory", "get_connection", "populate_genes_table">>

SpecSites == InitSites /\ [][PopulateSites]_vars

\* C22: populate_sites_table is insert-only.  It inserts, once each, the
\* names of the predefined vocabulary and of the site folders that the
\* table does not hold; every row the table held is still there with its
\* id, in the connection's view and in the committed table; with no new
\* name nothing is written; and when the call returns the map gives every
\* site folder of the run its id, no id being shared by two sites.
C22_SitesInsertOnly ==
    last.op = "populate_sites_table" =>
        LET wanted == predefined_sites \cup {cancer_names[i] : i \in 1..Len(cancer_names)}
            new == wanted \ DOMAIN last.existing
        IN  /\ {last.inserted[i] : i \in 1..Len(last.inserted)} = new
            /\ Len(last.inserted) = Cardinality(new)
            /\ \A table \in {db.sites, durable.sites} :
                  /\ \A name \in DOMAIN last.existing :
                        name \in DOMAIN table /\ table[name] = last.existing[name]
                  /\ DOMAIN table \subseteq DOMAIN last.existing \cup new
                  /\ \A a, b \in DOMAIN table : table[a].id = table[b].id => a = b
            /\ new = {} => db.sites = last.existing /\ durable.sites = last.existing
            /\ last.outcome = "ok" =>
                  /\ pc.at = "cancer_types"
                  /\ DOMAIN durable.sites = DOMAIN last.existing \cup new
                  /\ \A i \in 1..Len(cancer_names) :
                        /\ cancer_names[i] \in DOMAIN maps.site_map
                        /\ maps.site_map[cancer_names[i]] = durable.sites[cancer_names[i]].id
                        /\ maps.site_map[cancer_names[i]] > 0

\* Over a table that held Brain and a retired name, the run with the
\* folders Brain and Nasopharynx has inserted Breast and Nasopharynx and
\* left the two stored rows alone.
C22_Witness ==
    /\ last.op = "populate_sites_table"
    /\ last.outcome = "ok"
    /\ cancer_names = <<"Brain", "Nasopharynx">>
    /\ last.existing = ("Brain" :> [id |-> 2]) @@ ("Retired" :> [id |-> 1])
    /\ {last.inserted[i] : i \in 1..Len(last.inserted)} = {"Breast", "Nasopharynx"}
    /\ durable.sites["Brain"].id = 2
    /\ durable.sites["Retired"].id = 1
    /\ {durable.sites["Breast"].id, durable.sites["Nasopharynx"].id} = {3, 4}

(***************************************************************************)
(* The expression study: the loads of one folder whose tumor matrices have *)
(* cells drawn from numeric and non-numeric contents, with the gene and    *)
(* sample maps already made.                                               *)
(***************************************************************************)
StudyValueCells == {"2", "x", ""}

StudyExpressionFiles ==
    {[BrainFiles EXCEPT !["tumor_tpm.csv"] = BrainTumor(a, "3", "7", "1"),
                        !["tumor_fpkm.csv"] = BrainTumor("1", "3", "5", b)] :
        a \in StudyValueCells, b \in StudyValueCells}

InitExpressions ==
    /\ arg = [fn |-> "main"]
    /\ result = Pending
    /\ \E files \in StudyExpressionFiles :
          fs = ("Brain" :> [sheet |-> BrainSheet, files |-> files])
    /\ cancer_names = <<"Brain">>
    /\ conn = "open"
    /\ \E genes \in Orderings(AllGenes(fs, cancer_names)) :
          LET cancer_types == ("GBM" :> [id |-> 1, site_id |-> 1])
                              @@ ("LGG" :> [id |-> 2, site_id |-> 1])
          IN  db = [EmptyDb EXCEPT
                       !.genes = ExecuteMany("genes", EmptyTable, genes),
                       !.sites = ("Brain" :> [id |-> 1]),
                       !.cancer_types = cancer_types,
                       !.samples = ExecuteMany("samples", EmptyTable,
                                       AllSamples(fs, cancer_names, IdMap(cancer_types)))]
    /\ durable = db
    /\ maps = [gene_map |-> IdMap(db.genes), site_map |-> IdMap(db.sites),
               cancer_type_map |-> IdMap(db.cancer_types),
               sample_map |-> IdMap(db.samples)]
    /\ pc = [at |-> "expressions", site |-> 1, prefix |-> 1]
    /\ tmp_files = {}
    /\ last = NoOperation
    /\ run = "first"
    /\ first_run = EmptyDb
    /\ steps = <<"get_cancer_sites_from_directory", "get_connection",
                 "populate_genes_table", "populate_sites_table",
                 "populate_cancer_types_table", "populate_samples_table">>

SpecExpressions == InitExpressions /\ [][ProcessExpressionSet]_vars

(***************************************************************************)
(* The sample study: populate_samples_table on one folder whose sheet is   *)
(* drawn from a bounded set of rows, with a cancer-type map already made.  *)
(***************************************************************************)
StudySheetRows ==
    {[sample_barcode |-> Text(b), sample_type |-> Text("Primary Tumor"), tcga_code |-> c] :
        b \in {"TCGA-AB-1234-01", "TCGA", " XY-CD-01 "},
        c \in {NaCell, Text(" "), Text(" GBM "), Text("UNK")}}

StudyCancerTypes ==
    ("GBM" :> [id |-> 1, site_id |-> 1]) @@ ("TCGA-AB" :> [id |-> 2, site_id |-> 1])
    @@ ("XY-CD" :> [id |-> 3, site_id |-> 1])

InitSamples ==
    /\ arg = [fn |-> "main"]
    /\ result = Pending
    /\ \E rows \in SeqsUpTo(StudySheetRows, MaxSheetRows),
          columns \in {SheetColumns, SheetColumns \ {"tcga_code"}} :
          fs = ("Brain" :> [sheet |-> Sheet(columns, rows), files |-> BrainFiles])
    /\ cancer_names = <<"Brain">>
    /\ conn = "open"
    /\ db = [EmptyDb EXCEPT !.sites = ("Brain" :> [id |-> 1]),
                            !.cancer_types = StudyCancerTypes]
    /\ durable = db
    /\ maps = [NoMaps EXCEPT !.site_map = IdMap(db.sites),
                             !.cancer_type_map = IdMap(db.cancer_types)]
    /\ pc = [at |-> "samples"]
    /\ tmp_files = {}
    /\ last = NoOperation
    /\ run = "first"
    /\ first_run = EmptyDb
    /\ steps = <<"get_cancer_sites_from_directory", "get_connection",
                 "populate_genes_table", "populate_sites_table",
                 "populate_cancer_types_table">>

SpecSamples == InitSamples /\ [][PopulateSamples]_vars

\* The text of a sheet cell without its surrounding blanks, by position:
\* from the first to the last character that is not a blank.
Trimmed(cell) ==
    LET t == PyStr(cell)
        inked == {i \in 1..Len(t) : ~IsSpace(CharAt(t, i))}
    IN  IF inked = {} THEN ""
        ELSE SubSeq(t, CHOOSE i \in inked : \A j \in inked : i <= j,
                       CHOOSE i \in inked : \A j \in inked : j <= i)

\* The code the three-step policy gives a sheet row, as <<code>> or <<>>:
\* the explicit cell when the sheet has the column and the cell is not
\* blank; else, for a barcode that begins "TCGA-", the barcode up to its
\* second dash; else none.
PolicyCode(row, has_column) ==
    LET barcode == Trimmed(row.sample_barcode)
        dashes == {i \in 1..Len(barcode) : CharAt(barcode, i) = "-"}
        later == {i \in dashes : i > 5}
    IN  IF has_column /\ ~row.tcga_code.na /\ Trimmed(row.tcga_code) # ""
        THEN <<Trimmed(row.tcga_code)>>
        ELSE IF Len(barcode) >= 5 /\ SubSeq(barcode, 1, 5) = "TCGA-"
        THEN <<SubSeq(barcode, 1, IF later = {} THEN Len(barcode)
                                  ELSE (CHOOSE i \in later : \A j \in later : i <= j) - 1)>>
        ELSE <<>>

\* C8: populate_samples_table resolves each row's classification code by
\* the three-step policy (explicit non-blank code; else the first two
\* dash-separated segments of a barcode whose first segment is TCGA; else
\* none), gives the sample the cancer-type id the map holds for that code
\* and a null id when there is no code or the map lacks it, and stores
\* every sample either way.
C8_ClassificationCodePolicy ==
    (last.op = "populate_samples_table" /\ last.failure.batch = 0) =>
        LET sheet == fs[cancer_names[1]].sheet
            has_column == "tcga_code" \in sheet.columns
            id_of(row) ==
                LET code == PolicyCode(row, has_column)
                IN  IF code # <<>> /\ code[1] \in DOMAIN maps.cancer_type_map
                    THEN maps.cancer_type_map[code[1]] ELSE 0
            rows_of(barcode) ==
                {i \in 1..Len(sheet.rows) : Trimmed(sheet.rows[i].sample_barcode) = barcode}
        IN  /\ Len(last.records) = Len(sheet.rows)
            /\ \A i \in 1..Len(sheet.rows) :
                  /\ last.records[i].cancer_type_id = id_of(sheet.rows[i])
                  /\ Trimmed(sheet.rows[i].sample_barcode) \in DOMAIN db.samples
            /\ \A barcode \in DOMAIN db.samples :
                  /\ rows_of(barcode) # {}
                  /\ db.samples[barcode].cancer_type_id =
                        id_of(sheet.rows[CHOOSE i \in rows_of(barcode) :
                                            \A j \in rows_of(barcode) : j <= i])
            /\ (~has_column /\ \E i \in 1..Len(sheet.rows) :
                    sheet.rows[i].sample_barcode = Text("TCGA-AB-1234-01"))
                  => db.samples["TCGA-AB-1234-01"].cancer_type_id =
                         maps.cancer_type_map["TCGA-AB"]

\* A sheet without the code column: "TCGA-AB-1234-01" has been stored under
\* the id of "TCGA-AB", and a sample without a code under the null id.
C8_Witness ==
    /\ last.op = "populate_samples_table"
    /\ last.failure.batch = 0
    /\ "tcga_code" \notin fs["Brain"].sheet.columns
    /\ "TCGA-AB-1234-01" \in DOMAIN durable.samples
    /\ durable.samples["TCGA-AB-1234-01"].cancer_type_id = 2
    /\ "XY-CD-01" \in DOMAIN durable.samples
    /\ durable.samples["XY-CD-01"].cancer_type_id = 0

(***************************************************************************)
(* The repeated-barcode study: populate_samples_table on two folders whose *)
(* sheets may list one barcode several times, over an empty samples table  *)
(* and over one left by an earlier run.                                    *)
(***************************************************************************)
RepeatedSheetRows ==
    {SheetRow("T1", "Primary Tumor", Text("GBM")),
     SheetRow(" T1 ", "Solid Tissue Normal", Text("LGG")),
     SheetRow("T2", "Primary Tumor", NaCell)}

StoredSamples ==
    {EmptyTable,
     ("OLD" :> [id |-> 1, sample_type |-> "tumor", cancer_type_id |-> 1])
     @@ ("T1" :> [id |-> 2, sample_type |-> "normal", cancer_type_id |-> 0])}

InitRepeatedSamples ==
    /\ arg = [fn |-> "main"]
    /\ result = Pending
    /\ \E brain \in SeqsUpTo(RepeatedSheetRows, MaxSheetRows),
          breast \in SeqsUpTo(RepeatedSheetRows, MaxSheetRows) :
          fs = ("Brain" :> [sheet |-> Sheet(SheetColumns, brain), files |-> BrainFiles])
               @@ ("Breast" :> [sheet |-> Sheet(SheetColumns, breast),
                                files |-> BreastFiles("S1")])
    /\ cancer_names = <<"Brain", "Breast">>
    /\ conn = "open"
    /\ \E samples \in StoredSamples :
          db = [EmptyDb EXCEPT !.sites = StudySites,
                               !.cancer_types = ("GBM" :> [id |-> 1, site_id |-> 1])
                                                @@ ("LGG" :> [id |-> 2, site_id |-> 1]),
                               !.samples = samples]
    /\ durable = db
    /\ maps = [NoMaps EXCEPT !.site_map = IdMap(db.sites),
                             !.cancer_type_map = IdMap(db.cancer_types)]
    /\ pc = [at |-> "samples"]
    /\ tmp_files = {}
    /\ last = NoOperation
    /\ run = "first"
    /\ first_run = EmptyDb
    /\ steps = <<"get_cancer_sites_from_directory", "get_connection",
                 "populate_genes_table", "populate_sites_table",
                 "populate_cancer_types_table">>

SpecRepeatedSamples == InitRepeatedSamples /\ [][PopulateSamples]_vars

\* The stripped barcodes of a sheet's rows, and the position in
\* <<Brain's rows, Breast's rows>> of the last row with a barcode.
SheetRowsInOrder == fs["Brain"].sheet.rows \o fs["Breast"].sheet.rows
LastOccurrence(barcode) ==
    Max({i \in 1..Len(SheetRowsInOrder) :
            Trimmed(SheetRowsInOrder[i].sample_barcode) = barcode})

\* C26: when populate_samples_table has returned, a barcode listed several
\* times, in the sheets of two sites or on two rows of one sheet, has one
\* row in the samples table, with the class and the cancer-type id of its
\* last row in the order sites are run and rows are listed; a sample that
\* was stored before the call has the new class and cancer-type id under
\* the id it had, and no other stored row has changed.
C26_LastOccurrenceWins ==
    (last.op = "populate_samples_table" /\ last.failure.batch = 0) =>
        LET before == last.durable_before.samples
            listed == {Trimmed(SheetRowsInOrder[i].sample_barcode) :
                          i \in 1..Len(SheetRowsInOrder)}
        IN  /\ DOMAIN durable.samples = DOMAIN before \cup listed
            /\ \A a, b \in DOMAIN durable.samples :
                  durable.samples[a].id = durable.samples[b].id => a = b
            /\ \A barcode \in listed :
                  LET row == SheetRowsInOrder[LastOccurrence(barcode)]
                  IN  /\ durable.samples[barcode].sample_type =
                            normalize_sample_type(Trimmed(row.sample_type))
                      /\ durable.samples[barcode].cancer_type_id =
                            IF row.tcga_code = NaCell THEN 0
                            ELSE maps.cancer_type_map[Trimmed(row.tcga_code)]
            /\ \A barcode \in DOMAIN before :
                  /\ durable.samples[barcode].id = before[barcode].id
                  /\ barcode \notin listed => durable.samples[barcode] = before[barcode]
            /\ maps.sample_map = IdMap(durable.samples)

\* T1 was stored as a normal sample without a cancer type under id 2; Brain
\* lists it as a GBM tumor and Breast, later, as an LGG normal sample, and
\* Breast lists T2 twice: T1 is one row, id 2, normal, LGG.
C26_Witness ==
    /\ last.op = "populate_samples_table"
    /\ last.failure.batch = 0
    /\ last.durable_before.samples # EmptyTable
    /\ fs["Brain"].sheet.rows = <<SheetRow("T1", "Primary Tumor", Text("GBM"))>>
    /\ fs["Breast"].sheet.rows = <<SheetRow(" T1 ", "Solid Tissue Normal", Text("LGG")),
                                   SheetRow("T2", "Primary Tumor", NaCell)>>
    /\ durable.samples["T1"] = [id |-> 2, sample_type |-> "normal", cancer_type_id |-> 2]
    /\ durable.samples["T2"] = [id |-> 3, sample_type |-> "tumor", cancer_type_id |-> 0]
    /\ Cardinality(DOMAIN durable.samples) = 3

(***************************************************************************)
(* Two runs of the script in a row on the same data directory.             *)
(***************************************************************************)
RerunDirs == {("Brain" :> Brain) @@ ("Breast" :> Breast), TwoSymbols, TwoSheets}

InitRerun == fs \in RerunDirs /\ MainIdle

NextRerun == Next \/ Rerun

SpecRerun == InitRerun /\ [][NextRerun]_vars

(***************************************************************************)
(* Properties of the expression load.                                      *)
(***************************************************************************)
\* The call that `last` records read these three matrices.
LastFiles == [j \in 1..3 |-> FileAt(fs[last.site], FileName(last.prefix, Norms[j]))]

\* The last operation was a call of process_expression_set that got as far
\* as its staging file.
LastLoadStaged ==
    /\ last.op = "process_expression_set"
    /\ last.outcome \notin {"skipped", "read_raises"}

\* C2: every row of the expression table has a gene id that is a value of
\* the gene map and a sample id that is a value of the sample map, never a
\* null one; the rows a load inserts are exactly the merged rows whose gene
\* identifier and sample barcode both resolve, in order.
C2_ExpressionForeignKeys ==
    /\ \A key \in DOMAIN db.gene_expressions \cup DOMAIN durable.gene_expressions :
          /\ key[1] \in Range(maps.gene_map) /\ key[1] # 0
          /\ key[2] \in Range(maps.sample_map) /\ key[2] # 0
    /\ LastLoadStaged =>
          LET merged == MergedFrame(LastFiles[1], LastFiles[2], LastFiles[3])
              resolving == SelectSeq(merged, LAMBDA r :
                              /\ r.ensembl_id \in DOMAIN maps.gene_map
                              /\ r.sample_barcode \in DOMAIN maps.sample_map)
          IN  /\ Len(last.records) = Len(resolving)
              /\ \A i \in 1..Len(resolving) :
                    /\ last.records[i].gene_id = maps.gene_map[resolving[i].ensembl_id]
                    /\ last.records[i].sample_id = maps.sample_map[resolving[i].sample_barcode]

\* A load of matrices with a column that no sheet lists has dropped that
\* column's rows and written the others.
C2_Witness ==
    /\ LastLoadStaged
    /\ last.outcome \in {"bulk_loaded", "fallback_loaded"}
    /\ "U1" \in Range(LastFiles[1].sample_columns)
    /\ Len(last.records) = 4
    /\ Cardinality(DOMAIN durable.gene_expressions) = 4

\* Some file of the pair at hand is absent.
PairIncomplete ==
    /\ pc.at = "expressions"
    /\ \E norm \in Range(Norms) :
          ~Exists(FileAt(fs[cancer_names[pc.site]], FileName(Prefixes[pc.prefix], norm)))

\* The rows of the pair (site, prefix) are in the table `gene_expressions`.
PairLoaded(gene_expressions, site, prefix) ==
    LET folder == fs[cancer_names[site]]
    IN  \A g \in DOMAIN maps.gene_map, b \in DOMAIN maps.sample_map :
          (\A norm \in Range(Norms) :
              <<g, b>> \in PairsOf(FileAt(folder, FileName(Prefixes[prefix], norm))))
          => <<maps.gene_map[g], maps.sample_map[b]>> \in DOMAIN gene_expressions

\* C3: when one of the three files of a (site, class) pair is absent the
\* call returns normally with no row written, no commit and no staging
\* file, and the load goes on with the next pair: the other class of the
\* site, then the next site; when the load has gone through all pairs the
\* complete ones are in the table.
C3_MissingFileSkipsPair ==
    [][ /\ PairIncomplete =>
              /\ db' = db
              /\ durable' = durable
              /\ tmp_files' = tmp_files
              /\ pc'.at # "except"
              /\ pc.prefix = 1 =>
                    pc' = [at |-> "expressions", site |-> pc.site, prefix |-> 2]
              /\ (pc.prefix = 2 /\ pc.site < Len(cancer_names)) =>
                    pc' = [at |-> "expressions", site |-> pc.site + 1, prefix |-> 1]
        /\ (pc.at = "expressions" /\ pc'.at = "scores") =>
              \A site \in 1..Len(cancer_names), prefix \in 1..2 :
                  (\A norm \in Range(Norms) :
                      FileAt(fs[cancer_names[site]], FileName(Prefixes[prefix], norm)).kind = "csv")
                  => PairLoaded(durable'.gene_expressions, site, prefix)
      ]_vars

\* The tumor pair of Brain was skipped for its absent file, and the normal
\* pair of Brain and the tumor pair of Breast are in the table.
C3_Witness ==
    /\ pc.at = "scores"
    /\ ~Exists(fs["Brain"].files["tumor_fpkm_uq.csv"])
    /\ DOMAIN durable.gene_expressions =
          {<<maps.gene_map["ENSG1"], maps.sample_map["N1"]>>,
           <<maps.gene_map["ENSG2"], maps.sample_map["N1"]>>,
           <<maps.gene_map["ENSG1"], maps.sample_map["TCGA-AB-1234-01"]>>}
    /\ tmp_files = {}

RECURSIVE Concat(_)
Concat(seqs) == IF seqs = <<>> THEN <<>> ELSE Head(seqs) \o Concat(Tail(seqs))

\* The last operation was a load whose bulk statement failed.
LastBulkFailed == LastLoadStaged /\ last.outcome \in {"fallback_loaded", "fallback_raises"}

\* The batches that were executed are consecutive slices of the resolved
\* rows, in order, each of BATCH_SIZE rows but possibly the last.
BatchesInOrder ==
    /\ \A k \in 1..Len(last.batches) :
          /\ Len(last.batches[k]) >= 1
          /\ Len(last.batches[k]) <= BATCH_SIZE
          /\ k < Len(last.batches) => Len(last.batches[k]) = BATCH_SIZE
    /\ Concat(last.batches) = SubSeq(last.records, 1, Len(Concat(last.batches)))

\* C4 as stated: whenever the bulk statement fails, the resolved rows are
\* upserted in consecutive batches of at most BATCH_SIZE rows that cover
\* every row once, with one commit per batch, and the call returns
\* normally.
C4_FallbackAlwaysReturns ==
    LastBulkFailed =>
        /\ BatchesInOrder
        /\ Concat(last.batches) = last.records
        /\ last.commits = Len(last.batches)
        /\ ~last.raised

\* C4, amended: the failure of the bulk statement is never what the call
\* raises; the fallback executes consecutive batches of at most BATCH_SIZE
\* rows in order, each followed by its own commit; when every batch and
\* commit succeeds the batches cover every row once, the rows are committed
\* and the call returns normally; when a batch or its commit fails the call
\* raises that failure, with the rows of the earlier batches committed.
C4_FallbackBatches ==
    LastBulkFailed =>
        /\ BatchesInOrder
        /\ last.outcome = "fallback_loaded" =>
              /\ ~last.raised
              /\ pc.at # "except"
              /\ Concat(last.batches) = last.records
              /\ last.commits = Len(last.batches)
              /\ durable = db
              /\ durable.gene_expressions =
                    ExecuteMany("gene_expressions", last.view_before.gene_expressions,
                                last.records)
        /\ last.outcome = "fallback_raises" =>
              /\ last.raised
              /\ pc.at = "except"
              /\ last.commits \in {Len(last.batches), Len(last.batches) - 1}
              /\ last.commits < (Len(last.records) + BATCH_SIZE - 1) \div BATCH_SIZE
              /\ last.commits = 0 => durable = last.durable_before
              /\ \A i \in 1..Len(last.records) :
                    i <= last.commits * BATCH_SIZE =>
                        <<last.records[i].gene_id, last.records[i].sample_id>>
                            \in DOMAIN durable.gene_expressions

\* The bulk statement failed and the fallback wrote the rows in more than
\* one batch.
C4_Witness ==
    /\ LastBulkFailed
    /\ last.outcome = "fallback_loaded"
    /\ Len(last.batches) >= 2
    /\ Len(last.batches[Len(last.batches)]) < BATCH_SIZE \/ Len(last.records) > BATCH_SIZE

\* C5: once process_expression_set has created its staging file, the file
\* is gone when the call returns or raises, on every path.
C5_StagingFileRemoved ==
    LastLoadStaged => <<run, last.site, last.prefix>> \notin tmp_files

\* C6: two runs in a row on the same files leave the gene, site,
\* cancer-type, sample and expression tables after the second run's
\* expression load as they were after the first run: same rows, same ids,
\* same values.
C6_SecondRunIdentical ==
    (run = "second" /\ pc.at = "scores") =>
        \A table \in {"genes", "sites", "cancer_types", "samples", "gene_expressions"} :
            durable[table] = first_run[table]

(***************************************************************************)
(* Properties of the scoring step.                                         *)
(***************************************************************************)
\* The last operation was a site of populate_depth_scores that got as far
\* as its score records.
LastSiteScored == last.op = "populate_depth_scores" /\ "sample_columns" \in DOMAIN last

\* C9: every row of the two score tables has a sample id that the sample
\* map gives some barcode; a column of the tumor matrix whose barcode the
\* map lacks gets no record in either table and is no error (only a failing
\* write is), and the mapped columns of the matrix are all written.
C9_ScoresOnlyForMappedSamples ==
    /\ \A table \in {"depth2_scores", "depth_scores"} :
          \A sample_id \in DOMAIN db[table] \cup DOMAIN durable[table] :
              \E barcode \in DOMAIN maps.sample_map : maps.sample_map[barcode] = sample_id
    /\ LastSiteScored =>
          LET mapped == {c \in 1..Len(last.sample_columns) :
                            last.sample_columns[c] \in DOMAIN maps.sample_map}
              ids == {maps.sample_map[last.sample_columns[c]] : c \in mapped}
          IN  /\ Len(last.depth2_records) = Cardinality(mapped)
              /\ Len(last.depth_records) = Cardinality(mapped)
              /\ {last.depth2_records[i].sample_id : i \in 1..Len(last.depth2_records)} = ids
              /\ {last.depth_records[i].sample_id : i \in 1..Len(last.depth_records)} = ids
              /\ last.outcome = "error" <=> last.writes # <<"ok", "ok">>
              /\ last.outcome = "scored" =>
                    /\ ids \subseteq DOMAIN durable.depth2_scores
                    /\ ids \subseteq DOMAIN durable.depth_scores

\* A tumor matrix with the unlisted column U1 has been scored: T1 and T2
\* have their rows, U1 has none.
C9_Witness ==
    /\ LastSiteScored
    /\ last.outcome = "scored"
    /\ last.sample_columns = <<"T1", "T2", "U1">>
    /\ "U1" \notin DOMAIN maps.sample_map
    /\ DOMAIN durable.depth2_scores = {maps.sample_map["T1"], maps.sample_map["T2"]}
    /\ DOMAIN durable.depth_scores = {maps.sample_map["T1"], maps.sample_map["T2"]}

\* The TPM column of a list of score records.
TpmColumn(records) ==
    [i \in 1..Len(records) |-> [sample_id |-> records[i].sample_id, tpm |-> records[i].tpm]]

\* The score records of the run that differs from the present one only in
\* the tumor matrix of normalization `norm` of the site just scored.
OtherRun(norm, other) ==
    SiteScores([fs[last.site] EXCEPT !.files[FileName("tumor", norm)] = other],
               maps.sample_map, last.zscore_returns_frame)

\* C14: when a site has been scored, a run that differs only in the content
\* of the site's FPKM or FPKM-UQ tumor matrix (its sample columns
\* included) gives the same TPM column in every DEPTH2 and DEPTH score row
\* of the site.
C14_TpmScoresIgnoreOtherMatrices ==
    (last.op = "populate_depth_scores" /\ last.outcome = "scored") =>
        \A norm \in {"fpkm", "fpkm_uq"} :
            LET file == FileAt(fs[last.site], FileName("tumor", norm))
            IN  file.kind = "csv" =>
                    \A other \in OtherMatrices(file) :
                        /\ TpmColumn(OtherRun(norm, other).depth2_records)
                              = TpmColumn(last.depth2_records)
                        /\ TpmColumn(OtherRun(norm, other).depth_records)
                              = TpmColumn(last.depth_records)

\* The tumor matrix of one normalization of the site last scored can be
\* used: it is absent, or it can be read and has the TPM sample columns.
Usable(norm) ==
    LET file == TumorPath(fs[last.site], norm)
    IN  \/ ~Exists(file)
        \/ /\ file.kind = "csv"
           /\ HasColumns(file, TumorPath(fs[last.site], "tpm").sample_columns)

\* C15: of the three tumor matrices only the TPM one is required.  A site
\* whose tumor TPM file is absent gets no record and leaves both score
\* tables as they were, whatever other files it has.  A site whose TPM
\* matrix has sample columns, with the FPKM or the FPKM-UQ file absent (and
\* the other usable), gets in each table one record for every column the
\* sample map resolves: the absent normalization is null, the TPM field is
\* the score of the TPM matrix; when the writes succeed the rows are in the
\* tables.
C15_OnlyTpmRequired ==
    last.op = "populate_depth_scores" =>
        LET tpm_df == TumorPath(fs[last.site], "tpm")
            absent == {norm \in {"fpkm", "fpkm_uq"} : ~Exists(TumorPath(fs[last.site], norm))}
            tpm_log2 == Log2Matrix(tpm_df, tpm_df.sample_columns)
            tpm_scores(table_name) ==
                IF table_name = "depth2_scores"
                THEN depth2_calculation(tpm_log2, last.zscore_returns_frame)
                ELSE depth_calculation(tpm_log2, NoFrame)
            records(table_name) ==
                IF table_name = "depth2_scores" THEN last.depth2_records
                ELSE last.depth_records
        IN  /\ ~Exists(tpm_df) =>
                 /\ ~LastSiteScored
                 /\ \A table_name \in {"depth2_scores", "depth_scores"} :
                       /\ db[table_name] = last.view_before[table_name]
                       /\ durable[table_name] = last.durable_before[table_name]
            /\ (/\ tpm_df.kind = "csv"
                /\ tpm_df.sample_columns # <<>>
                /\ absent # {}
                /\ Usable("fpkm") /\ Usable("fpkm_uq")) =>
                 /\ LastSiteScored
                 /\ \A table_name \in {"depth2_scores", "depth_scores"} :
                      \A c \in 1..Len(tpm_df.sample_columns) :
                         tpm_df.sample_columns[c] \in DOMAIN maps.sample_map =>
                            LET sample_id == maps.sample_map[tpm_df.sample_columns[c]]
                                mine == {i \in 1..Len(records(table_name)) :
                                            records(table_name)[i].sample_id = sample_id}
                            IN  /\ mine # {}
                                /\ \A i \in mine :
                                     LET record == records(table_name)[i]
                                     IN  /\ record.tpm = tpm_scores(table_name)[c]
                                         /\ "fpkm" \in absent => record.fpkm.nan
                                         /\ "fpkm_uq" \in absent => record.fpkm_uq.nan
                                /\ last.outcome = "scored" =>
                                     /\ sample_id \in DOMAIN durable[table_name]
                                     /\ durable[table_name][sample_id].tpm
                                           = tpm_scores(table_name)[c]

\* Brain, without its FPKM tumor matrix, has a row with a TPM score and a
\* null FPKM for T1 and T2 in both tables; Breast, with FPKM and FPKM-UQ
\* matrices but no TPM one, has just been passed over and has no row.
C15_Witness ==
    /\ last.op = "populate_depth_scores"
    /\ last.site = "Breast"
    /\ last.outcome = "no_tpm"
    /\ fs = TumorFilesAbsent
    /\ "TCGA-AB-1234-01" \in DOMAIN maps.sample_map
    /\ \A table_name \in {"depth2_scores", "depth_scores"} :
          /\ DOMAIN durable[table_name] = {maps.sample_map["T1"], maps.sample_map["T2"]}
          /\ \A sample_id \in DOMAIN durable[table_name] :
                /\ ~durable[table_name][sample_id].tpm.nan
                /\ durable[table_name][sample_id].fpkm.nan
                /\ ~durable[table_name][sample_id].fpkm_uq.nan

\* The last operation was a step of a per-site loop in which the
\* processing of the site raised: a file of the site could not be read, or
\* the scoring of the site failed.
LastSiteRaised ==
    \/ /\ last.op \in {"populate_genes_table", "process_expression_set"}
       /\ last.outcome = "read_raises"
    \/ /\ last.op = "populate_depth_scores"
       /\ last.outcome = "error"

\* C16: an exception raised while one site is processed is caught at the
\* site's boundary in every per-site loop: it never reaches the handler of
\* main, and main does not end by raising it.
C16_SiteErrorsAreCaught ==
    LastSiteRaised => pc.at \notin {"except"}

\* The load of Brain's normal matrices has raised on the unreadable file
\* and main is in its handler: Breast, the next site, has no expression row
\* and will get none.
C16_ExpressionLoadEscapes ==
    /\ fs = UnreadableNormal
    /\ last.op = "process_expression_set"
    /\ last.site = "Brain"
    /\ last.outcome = "read_raises"
    /\ pc.at = "except"
    /\ \A key \in DOMAIN db.gene_expressions :
          key[2] # maps.sample_map["TCGA-AB-1234-01"]

\* The sites that populate_cancer_types_table, or populate_samples_table,
\* has passed over: the sheet is absent, or the processing of the site
\* raised.
SkippedSites ==
    {cancer_names[i] : i \in {j \in 1..Len(cancer_names) :
                                 ~Exists(fs[cancer_names[j]].sheet)}}
    \cup last.raised

\* The barcodes a readable sheet lists, as the sample table stores them.
SheetBarcodes(sheet) ==
    IF sheet.kind = "csv"
    THEN {Strip(PyStr(sheet.rows[r].sample_barcode)) : r \in 1..Len(sheet.rows)}
    ELSE {}

\* C17: a site whose sheet is absent, or whose processing raised, gives the
\* cancer-type step no code-to-site pair and the sample step no sample,
\* and the step goes on (it does not take main to its handler because of
\* the site); the sites that were processed give their pairs and samples
\* as usual.
C17_SkippedSiteContributesNothing ==
    /\ last.op = "populate_cancer_types_table" =>
          /\ \A site \in SkippedSites :
                \A i \in 1..Len(last.records) :
                    last.records[i][2] # Get(maps.site_map, site)
          /\ \A j \in 1..Len(cancer_names) :
                LET site == cancer_names[j]
                    sheet == fs[site].sheet
                IN  (site \notin SkippedSites /\ "tcga_code" \in sheet.columns
                        /\ Get(maps.site_map, site) # 0) =>
                        \A r \in 1..Len(sheet.rows) :
                            (~sheet.rows[r].tcga_code.na
                                /\ Strip(PyStr(sheet.rows[r].tcga_code)) # "") =>
                                \E i \in 1..Len(last.records) :
                                    last.records[i][1] = Strip(PyStr(sheet.rows[r].tcga_code))
          /\ last.outcome = "ok" => pc.at = "samples"
    /\ last.op = "populate_samples_table" =>
          /\ {last.records[i].sample_barcode : i \in 1..Len(last.records)}
                = UNION {SheetBarcodes(fs[cancer_names[j]].sheet) :
                            j \in {k \in 1..Len(cancer_names) :
                                      /\ cancer_names[k] \notin SkippedSites
                                      /\ UsableSheet(fs[cancer_names[k]].sheet)}}
          /\ last.failure.batch = 0 => pc.at = "expressions"

\* The cancer-type step has passed over Brain, whose numeric codes made its
\* processing raise, and still holds the pair of Brain's code 7.
C17_RaisingSiteKeepsItsCodes ==
    /\ fs = NumericCodes
    /\ last.op = "populate_cancer_types_table"
    /\ "Brain" \in last.raised
    /\ last.records = << <<"7", maps.site_map["Brain"]>> >>

\* The six steps of main's try block, in the order of the source, and the
\* step that a call of the ghost `last` belongs to.
PipelineSteps ==
    <<"populate_genes_table", "populate_sites_table", "populate_cancer_types_table",
      "populate_samples_table", "populate_gene_expressions_table", "populate_depth_scores">>
StepOf(op) == IF op = "process_expression_set" THEN "populate_gene_expressions_table" ELSE op

Count(q, x) == Cardinality({i \in 1..Len(q) : q[i] = x})

\* C18: when an exception escapes a step of main, the transaction is
\* rolled back exactly once (the connection's view is the committed data
\* again), right after the step that raised: no step runs after it, only
\* the closing of the connection; main then ends by raising and never
\* returns normally.  A run that made no rollback is a run that went
\* through all its steps.
C18_RollbackOnceThenRaise ==
    /\ pc.at = "except" =>
          /\ Count(steps, "conn.rollback") = 0
          /\ Count(steps, "conn.close") = 0
          /\ steps[Len(steps)] = StepOf(last.op)
    /\ last.op = "rollback" =>
          /\ db = durable
          /\ conn = "open"
          /\ steps[Len(steps)] = "conn.rollback"
          /\ steps[Len(steps) - 1] = StepOf(last.failed.op)
    /\ Count(steps, "conn.rollback") <= 1
    /\ \A i \in 1..Len(steps) :
          steps[i] = "conn.rollback" =>
              \A j \in (i + 1)..Len(steps) : steps[j] = "conn.close"
    /\ ("at" \in DOMAIN pc /\ pc.at \in {"finally", "returned"}) =>
          /\ pc.raised <=> Count(steps, "conn.rollback") = 1
          /\ (~pc.raised /\ cancer_names # <<>>) =>
                \A k \in 1..Len(PipelineSteps) : Count(steps, PipelineSteps[k]) = 1
    /\ result.done =>
          /\ pc.at = "returned"
          /\ result.value = "raised" <=> pc.raised
          /\ result.value = "None" <=> ~pc.raised

\* main has ended by raising after the sample step failed at its second
\* batch: one rollback, then the close, and nothing else after the step.
C18_Witness ==
    /\ result = Returned("raised")
    /\ steps = <<"get_cancer_sites_from_directory", "get_connection",
                 "populate_genes_table", "populate_sites_table",
                 "populate_cancer_types_table", "populate_samples_table",
                 "conn.rollback", "conn.close">>
    /\ durable.samples # EmptyTable
    /\ durable.gene_expressions = EmptyTable

\* The first n batches of a list of records, as one list.
RowsOfBatches(records, n) ==
    SubSeq(records, 1, IF n * BATCH_SIZE < Len(records) THEN n * BATCH_SIZE ELSE Len(records))

\* C19: each batch of row-level writes is committed on its own.  After
\* main's rollback that follows a failure at batch k of the sample upsert,
\* or of the row-batched expression fallback, the table holds what was
\* committed before the call with the rows of batches 1..k-1 applied, and
\* nothing of batch k or of a later batch; and whatever an earlier step or
\* site committed is still there.
C19_BatchesCommittedAlone ==
    last.op = "rollback" =>
        /\ last.failed.op = "populate_samples_table" =>
              durable.samples =
                  ExecuteMany("samples", last.failed.durable_before.samples,
                              RowsOfBatches(last.failed.records, last.failed.failure.batch - 1))
        /\ (last.failed.op = "process_expression_set"
               /\ last.failed.outcome = "fallback_raises") =>
              durable.gene_expressions =
                  ExecuteMany("gene_expressions", last.failed.durable_before.gene_expressions,
                              RowsOfBatches(last.failed.records, last.failed.commits))
        /\ "durable_before" \in DOMAIN last.failed =>
              \A table_name \in DOMAIN durable :
                  \A key \in DOMAIN last.failed.durable_before[table_name] :
                      key \in DOMAIN durable[table_name]

\* The steps of the try block that main has started, in the order it
\* started them.
StartedSteps == SelectSeq(steps, LAMBDA step : step \in Range(PipelineSteps))

\* C20: main starts its steps in the order genes, sites, cancer types,
\* samples, expression load, scores, none twice and none before every
\* earlier one was started and returned (a step that raises is the last
\* one).  When the cancer-type step has started the site map exists; when
\* the sample step has started the cancer-type map is the id map of the
\* cancer-type table; an expression or score row exists only after the
\* gene step and the sample step, with both maps in place.
C20_StepsInOrder ==
    /\ StartedSteps = SubSeq(PipelineSteps, 1, Len(StartedSteps))
    /\ \A k \in 1..(Len(StartedSteps) - 1) :
          \A i \in 1..Len(steps) :
              steps[i] = StartedSteps[k] => steps[i + 1] = StartedSteps[k + 1]
    /\ "populate_cancer_types_table" \in Range(steps) =>
          /\ maps.site_map # EmptyTable
          /\ maps.site_map = IdMap(durable.sites)
          /\ \A i \in 1..Len(cancer_names) : cancer_names[i] \in DOMAIN maps.site_map
    /\ "populate_samples_table" \in Range(steps) =>
          maps.cancer_type_map = IdMap(durable.cancer_types)
    /\ (\E table_name \in {"gene_expressions", "depth2_scores", "depth_scores"} :
            db[table_name] # EmptyTable \/ durable[table_name] # EmptyTable) =>
          /\ "populate_genes_table" \in Range(steps)
          /\ "populate_samples_table" \in Range(steps)
          /\ maps.gene_map # EmptyTable
          /\ maps.gene_map = IdMap(durable.genes)
          /\ maps.sample_map # EmptyTable
          /\ maps.sample_map = IdMap(durable.samples)

\* A run that went through the six steps and closed the connection, with
\* expression rows and score rows stored.
C20_Witness ==
    /\ result = Returned("None")
    /\ steps = <<"get_cancer_sites_from_directory", "get_connection">>
                 \o PipelineSteps \o <<"conn.close">>
    /\ durable.gene_expressions # EmptyTable
    /\ durable.depth2_scores # EmptyTable
    /\ durable.depth_scores # EmptyTable

\* Every gene row of `before` is in `after` under the same identifier and
\* the same surrogate id.
GenesKept(before, after) ==
    \A g \in DOMAIN before : g \in DOMAIN after /\ after[g].id = before[g].id

\* C23: populate_genes_table changes nothing of a stored gene row but its
\* display symbol: through the call every gene of the connection's view
\* stays, under its identifier and its surrogate id, and whatever the
\* pipeline does, over any number of runs, the committed genes table keeps
\* every row's identifier and id, so that no gene row is deleted and the
\* set of identifiers only grows.
C23_GeneUpsertKeepsIds ==
    [][ /\ GenesKept(durable.genes, durable'.genes)
        /\ pc.at = "genes" =>
              /\ GenesKept(db.genes, db'.genes)
              /\ \A table \in {db', durable'} :
                    \A a, b \in DOMAIN table.genes :
                        table.genes[a].id = table.genes[b].id => a = b
      ]_vars

\* The second run has stored for a gene of the first run another display
\* symbol, under the id of the first run.
C23_Witness ==
    /\ run = "second"
    /\ last.op = "populate_genes_table"
    /\ last.outcome = "ok"
    /\ \E g \in DOMAIN first_run.genes :
          /\ durable.genes[g].id = first_run.genes[g].id
          /\ durable.genes[g].gene_symbol # first_run.genes[g].gene_symbol

\* The row of `table` that the record is keyed to holds the record's three
\* values, a NaN standing for the null.
StoredAsIs(table, record) ==
    /\ <<record.gene_id, record.sample_id>> \in DOMAIN table
    /\ table[<<record.gene_id, record.sample_id>>] =
          [tpm |-> record.tpm, fpkm |-> record.fpkm, fpkm_uq |-> record.fpkm_uq]

\* C24: when a load of process_expression_set has returned, every row it was
\* ready to insert is in the expression table with its three values, a
\* non-numeric cell being the null and the other two values those of the
\* matrices.
C24_NonNumericLoadedAsNull ==
    (LastLoadStaged /\ last.outcome \in {"bulk_loaded", "fallback_loaded"}) =>
        \A i \in 1..Len(last.records) : StoredAsIs(durable.gene_expressions, last.records[i])

\* C25: the merged relation of process_expression_set has at most one row
\* for a (gene identifier, sample barcode) pair, whatever rows the three
\* matrices have, a gene identifier on two rows of a matrix included.
C25_OneRowPerPair ==
    (result.done /\ arg.fn = "merge") =>
        \A i, j \in 1..Len(result.value) :
            ( /\ result.value[i].ensembl_id = result.value[j].ensembl_id
              /\ result.value[i].sample_barcode = result.value[j].sample_barcode )
            => i = j

\* The run has ended in main's handler because a normal_* matrix of a site
\* could not be read.
NormalReadAborted ==
    /\ last.op = "rollback"
    /\ last.failed.op = "process_expression_set"
    /\ last.failed.outcome = "read_raises"
    /\ last.failed.prefix = "normal"

\* Every record is a committed row of the table.
ScoreRowsStored(table, records) ==
    \A k \in 1..Len(records) :
        /\ records[k].sample_id \in DOMAIN table
        /\ table[records[k].sample_id] =
              [tpm |-> records[k].tpm, fpkm |-> records[k].fpkm,
               fpkm_uq |-> records[k].fpkm_uq]

\* C27: the DEPTH2 and DEPTH rows a run leaves for a site are those computed
\* from the site's tumor matrices alone, whatever its normal_* matrices are:
\* when main reaches its finally block, without a failed database call and
\* without a tumor matrix that could not be scored, every site whose tumor
\* matrices can be scored has its rows in both tables, also when a
\* normal_* matrix of some site could not be read.
C27_ScoresIgnoreNormalMatrices ==
    (pc.at = "finally" /\ (NormalReadAborted \/ (~pc.raised /\ ~pc.site_errors))) =>
        \A i \in 1..Len(cancer_names) : \E zscore_returns_frame \in BOOLEAN :
            LET scores == SiteScores(fs[cancer_names[i]], maps.sample_map,
                                     zscore_returns_frame)
            IN  /\ ScoreRowsStored(durable.depth2_scores, scores.depth2_records)
                /\ ScoreRowsStored(durable.depth_scores, scores.depth_records)

\* What main has done on the connection since it was closed: nothing.
ClosedForGood ==
    /\ steps[Len(steps)] = "conn.close"
    /\ Count(steps, "conn.close") = 1
    /\ Count(steps, "get_connection") = 1
    /\ pc.at = "returned"
    /\ result.done
    /\ db = durable

\* C28: a connection that main has opened is closed, exactly once, before
\* main returns or raises: on the success path after the last step, on the
\* error path right after the one rollback; once it is closed main makes no
\* call on it and the tables stay as they are; main never ends with the
\* connection open.  With no site found main returns without a connection
\* and with the tables untouched.
C28_ConnectionClosedOnce ==
    /\ [](conn = "closed" => ClosedForGood)
    /\ [](result.done =>
             IF cancer_names = <<>>
             THEN /\ conn = "none"
                  /\ steps = <<"get_cancer_sites_from_directory">>
                  /\ db = EmptyDb /\ durable = EmptyDb
             ELSE /\ conn = "closed"
                  /\ pc.raised => steps[Len(steps) - 1] = "conn.rollback"
                  /\ ~pc.raised => steps[Len(steps) - 1] = "populate_depth_scores")
    /\ [][conn = "closed" => (conn' = "closed" /\ db' = db /\ durable' = durable
                              /\ steps' = steps)]_vars
    /\ (conn = "open") ~> (conn = "closed" /\ result.done)

\* The expression load raised: main rolled back, closed the connection and
\* ended by raising, with the rows of the earlier steps committed.
C28_Witness ==
    /\ conn = "closed"
    /\ result = Returned("raised")
    /\ steps = <<"get_cancer_sites_from_directory", "get_connection",
                 "populate_genes_table", "populate_sites_table",
                 "populate_cancer_types_table", "populate_samples_table",
                 "populate_gene_expressions_table", "conn.rollback", "conn.close">>
    /\ db = durable
    /\ durable.samples # EmptyTable

=============================================================================
